---- MODULE Spec2Model ----
(***************************************************************************)
(* agent-vault: the encrypted secret store (src/src/vault.ts), the         *)
(* redaction / restoration engine (src/src/redact.ts) and the command line *)
(* built on them (cli.ts, src/unnamed/part_003; tty.ts,                    *)
(* src/unnamed/part_002).                                                  *)
(*                                                                         *)
(* A JavaScript string is modelled as a sequence of one-character strings, *)
(* so that indexing, searching and replacing are computed the way the      *)
(* code computes them.                                                     *)
(***************************************************************************)
EXTENDS Integers, Sequences, FiniteSets, TLC

VARIABLES
    vaultKey,      \* content of vault.key (a master key), or NoFile
    vaultJson,     \* content of vault.json: sequence of [name, entry], or NoFile
    file,          \* content of the work file the commands are pointed at, or NoFile
    out,           \* observation of the last command: exit code, stdout, stderr, effect
    content,       \* engine run: the content handed to the engine
    secretValues,  \* engine run: the Map value -> name handed to redact
    res,           \* engine run: results produced so far
    pc             \* engine run: which engine functions have been applied

vars == <<vaultKey, vaultJson, file, out, content, secretValues, res, pc>>

cliVars == <<vaultKey, vaultJson, file, out>>

engineVars == <<content, secretValues, res, pc>>

\* a file that does not exist: no content is this sequence
NoFile == <<"<no file>">>

\* null / undefined where a string is expected: no string is this sequence
Null == <<"<null>">>

-----------------------------------------------------------------------------
(* Characters and character classes of the regular expressions.            *)

Lower == {"a","b","c","d","e","f","g","h","i","j","k","l","m",
          "n","o","p","q","r","s","t","u","v","w","x","y","z"}

Upper == {"A","B","C","D","E","F","G","H","I","J","K","L","M",
          "N","O","P","Q","R","S","T","U","V","W","X","Y","Z"}

Digit == {"0","1","2","3","4","5","6","7","8","9"}

HexChar == Digit \cup {"a","b","c","d","e","f"}

Alnum == Lower \cup Upper \cup Digit

\* \s of the regular expressions and the characters String.prototype.trim removes
WhiteSpace == {" ", "\t", "\n", "\r"}

QuoteChar == {"\"", "'"}

\* [a-z0-9-]: the characters of a secret name
NameChar == Lower \cup Digit \cup {"-"}

-----------------------------------------------------------------------------
(* String primitives of JavaScript, on sequences of characters.            *)

\* s.startsWith(p, i - 1): p occurs in s at (1-based) position i
StartsWithAt(s, p, i) ==
    /\ i >= 1
    /\ i + Len(p) - 1 <= Len(s)
    /\ \A k \in 1..Len(p) : s[i + k - 1] = p[k]

\* s.indexOf(p, from - 1) + 1: least position >= from where p occurs, 0 if none
IndexOf(s, p, from) ==
    LET hits == {i \in from..(Len(s) - Len(p) + 1) : StartsWithAt(s, p, i)}
    IN  IF hits = {} THEN 0 ELSE CHOOSE i \in hits : \A j \in hits : i <= j

\* s.includes(p)
Includes(s, p) == IndexOf(s, p, 1) # 0

\* s.slice(i - 1, j): characters i..j
Slice(s, i, j) == IF i > j THEN <<>> ELSE SubSeq(s, i, j)

RECURSIVE ReplaceAllFrom(_, _, _, _)
ReplaceAllFrom(s, v, r, i) ==
    LET j == IndexOf(s, v, i)
    IN  IF j = 0 THEN Slice(s, i, Len(s))
        ELSE Slice(s, i, j - 1) \o r \o ReplaceAllFrom(s, v, r, j + Len(v))

\* s.split(v).join(r) for a non-empty v: every occurrence of v, found left to
\* right without overlap, is replaced by r
SplitJoin(s, v, r) == ReplaceAllFrom(s, v, r, 1)

\* s.replace(v, r) with a string pattern v and a replacement r without "$":
\* only the first occurrence is replaced
ReplaceFirst(s, v, r) ==
    LET j == IndexOf(s, v, 1)
    IN  IF j = 0 THEN s
        ELSE Slice(s, 1, j - 1) \o r \o Slice(s, j + Len(v), Len(s))

\* s.trim()
Trim(s) ==
    LET keep == {i \in 1..Len(s) : s[i] \notin WhiteSpace}
    IN  IF keep = {} THEN <<>>
        ELSE Slice(s, CHOOSE i \in keep : \A j \in keep : i <= j,
                      CHOOSE i \in keep : \A j \in keep : i >= j)

RECURSIVE SplitFrom(_, _, _)
SplitFrom(s, sep, i) ==
    LET j == IndexOf(s, <<sep>>, i)
    IN  IF j = 0 THEN <<Slice(s, i, Len(s))>>
        ELSE <<Slice(s, i, j - 1)>> \o SplitFrom(s, sep, j + 1)

\* s.split("\n")
SplitLines(s) == SplitFrom(s, "\n", 1)

RECURSIVE JoinLines(_)
\* lines.join("\n")
JoinLines(lines) ==
    IF Len(lines) = 0 THEN <<>>
    ELSE IF Len(lines) = 1 THEN lines[1]
    ELSE lines[1] \o <<"\n">> \o JoinLines(Tail(lines))

\* least position >= i whose character is not in class (Len(s) + 1 if none):
\* where a greedy class* starting at i stops
RunEnd(s, class, i) ==
    LET stop == {j \in i..Len(s) : s[j] \notin class}
    IN  IF stop = {} THEN Len(s) + 1 ELSE CHOOSE j \in stop : \A k \in stop : j <= k

-----------------------------------------------------------------------------
(* redact.ts: placeholder grammar.                                          *)

\* "<agent-vault:"
PlaceholderOpen == <<"<","a","g","e","n","t","-","v","a","u","l","t",":">>

\* "<agent-vault:UNVAULTED:sha256:"
UnvaultedOpen ==
    PlaceholderOpen \o <<"U","N","V","A","U","L","T","E","D",":","s","h","a","2","5","6",":">>

\* the placeholder without its closing bracket
Placeholder_Unclosed(key) == PlaceholderOpen \o key

\* `<agent-vault:${key}>`
Placeholder(key) == PlaceholderOpen \o key \o <<">">>

\* `<agent-vault:UNVAULTED:sha256:${hash}>`
UnvaultedPlaceholder(hash) == UnvaultedOpen \o hash \o <<">">>

MIN_REDACT_LENGTH == 8

\* /^[a-z0-9](?:[a-z0-9-]*[a-z0-9])?$/ : the name grammar
ValidName(n) ==
    /\ Len(n) >= 1
    /\ \A i \in 1..Len(n) : n[i] \in NameChar
    /\ n[1] # "-"
    /\ n[Len(n)] # "-"

\* PLACEHOLDER_RE matched at position i of s: the position of the closing ">",
\* or 0.  The name is the whole run of name characters after "<agent-vault:";
\* it must be followed by ">" and neither start nor end with "-".
PlaceholderEndAt(s, i) ==
    IF ~StartsWithAt(s, PlaceholderOpen, i) THEN 0
    ELSE LET b == i + Len(PlaceholderOpen)
             e == RunEnd(s, NameChar, b)
         IN  IF e <= Len(s) /\ s[e] = ">" /\ ValidName(Slice(s, b, e - 1))
             THEN e ELSE 0

\* UNVAULTED_RE matched at position i of s: the position of the closing ">", or 0
UnvaultedEndAt(s, i) ==
    IF ~StartsWithAt(s, UnvaultedOpen, i) THEN 0
    ELSE LET b == i + Len(UnvaultedOpen)
         IN  IF /\ b + 8 <= Len(s)
                /\ \A k \in b..(b + 7) : s[k] \in HexChar
                /\ s[b + 8] = ">"
             THEN b + 8 ELSE 0

-----------------------------------------------------------------------------
(* A JavaScript Map<string, string>, as the sequence of its [key, value]   *)
(* pairs in insertion order.                                               *)

MapHas(m, k) == \E i \in 1..Len(m) : m[i][1] = k

\* Map.prototype.set: an existing key keeps its position
MapSet(m, k, v) ==
    IF MapHas(m, k)
    THEN [i \in 1..Len(m) |-> IF m[i][1] = k THEN <<k, v>> ELSE m[i]]
    ELSE Append(m, <<k, v>>)

\* Map.prototype.get, Null for undefined
MapGet(m, k) ==
    IF MapHas(m, k) THEN m[CHOOSE i \in 1..Len(m) : m[i][1] = k][2] ELSE Null

RECURSIVE InsertByLength(_, _)
\* e placed after every element at least as long as it (stable, descending)
InsertByLength(sorted, e) ==
    IF sorted = <<>> THEN <<e>>
    ELSE IF Len(Head(sorted)[1]) >= Len(e[1])
         THEN <<Head(sorted)>> \o InsertByLength(Tail(sorted), e)
         ELSE <<e>> \o sorted

RECURSIVE SortByLengthDesc(_)
\* entries.sort((a, b) => b[0].length - a[0].length): stable, longest first
SortByLengthDesc(entries) ==
    IF entries = <<>> THEN <<>>
    ELSE InsertByLength(SortByLengthDesc(SubSeq(entries, 1, Len(entries) - 1)),
                        entries[Len(entries)])

-----------------------------------------------------------------------------
(* redact.ts: known secret patterns.  Each pattern is an unanchored        *)
(* RegExp.test: a match may start anywhere in the string.                  *)

\* the n characters of s from position i on are all in class
HasRun(s, i, class, n) ==
    /\ i + n - 1 <= Len(s)
    /\ \A k \in i..(i + n - 1) : s[k] \in class

\* /prefix[class]{n,}/
PrefixRun(s, prefix, class, n) ==
    \E i \in 1..Len(s) : StartsWithAt(s, prefix, i) /\ HasRun(s, i + Len(prefix), class, n)

\* [A-Za-z0-9_-]
TokenChar == Alnum \cup {"_", "-"}

\* /[0-9]{8,10}:[A-Za-z0-9_-]{35}/
TelegramPattern(s) ==
    \E i \in 1..Len(s) :
        /\ s[i] = ":"
        /\ i > 8
        /\ HasRun(s, i - 8, Digit, 8)
        /\ HasRun(s, i + 1, TokenChar, 35)

\* "-----BEGIN " or "-----END " at i, then [A-Z ]+ and "-----": the position
\* after the closing dashes, or 0
PemLineEnd(s, word, i) ==
    LET open == <<"-","-","-","-","-">> \o word \o <<" ">>
        b    == i + Len(open)
        e    == RunEnd(s, Upper \cup {" "}, b)
    IN  IF StartsWithAt(s, open, i) /\ e > b /\ StartsWithAt(s, <<"-","-","-","-","-">>, e)
        THEN e + 5 ELSE 0

\* /-----BEGIN [A-Z ]+-----[\s\S]*?-----END [A-Z ]+-----/
PemPattern(s) ==
    \E i \in 1..Len(s) :
        LET e == PemLineEnd(s, <<"B","E","G","I","N">>, i)
        IN  e # 0 /\ \E j \in e..Len(s) : PemLineEnd(s, <<"E","N","D">>, j) # 0

\* /eyJ[A-Za-z0-9_-]+\.eyJ[A-Za-z0-9_-]+\.[A-Za-z0-9_-]+/
JwtPattern(s) ==
    \E i \in 1..Len(s) :
        LET e1 == RunEnd(s, TokenChar, i + 3)
            e2 == RunEnd(s, TokenChar, e1 + 4)
        IN  /\ StartsWithAt(s, <<"e","y","J">>, i)
            /\ e1 > i + 3
            /\ e1 <= Len(s) /\ s[e1] = "."
            /\ StartsWithAt(s, <<"e","y","J">>, e1 + 1)
            /\ e2 > e1 + 4
            /\ e2 <= Len(s) /\ s[e2] = "."
            /\ HasRun(s, e2 + 1, TokenChar, 1)

\* /Bearer\s+[A-Za-z0-9_.-]{20,}/
BearerPattern(s) ==
    \E i \in 1..Len(s) :
        LET w == RunEnd(s, WhiteSpace, i + 6)
        IN  /\ StartsWithAt(s, <<"B","e","a","r","e","r">>, i)
            /\ w > i + 6
            /\ HasRun(s, w, TokenChar \cup {"."}, 20)

\* SECRET_PATTERNS.some((p) => p.test(s))
matchesSecretPattern(s) ==
    \/ PrefixRun(s, <<"s","k","-">>, TokenChar, 20)
    \/ PrefixRun(s, <<"s","k","-","p","r","o","j","-">>, TokenChar, 20)
    \/ PrefixRun(s, <<"s","k","-","a","n","t","-">>, TokenChar, 20)
    \/ PrefixRun(s, <<"g","h","p","_">>, Alnum \cup {"_"}, 36)
    \/ PrefixRun(s, <<"g","h","o","_">>, Alnum \cup {"_"}, 36)
    \/ PrefixRun(s, <<"g","i","t","h","u","b","_","p","a","t","_">>, Alnum \cup {"_"}, 22)
    \/ \E c \in {"b", "p", "a", "s"} :
           PrefixRun(s, <<"x","o","x",c,"-">>, Alnum \cup {"-"}, 10)
    \/ PrefixRun(s, <<"s","k","_","l","i","v","e","_">>, Alnum, 24)
    \/ PrefixRun(s, <<"s","k","_","t","e","s","t","_">>, Alnum, 24)
    \/ PrefixRun(s, <<"p","k","_","l","i","v","e","_">>, Alnum, 24)
    \/ PrefixRun(s, <<"p","k","_","t","e","s","t","_">>, Alnum, 24)
    \/ PrefixRun(s, <<"A","K","I","A">>, Digit \cup Upper, 16)
    \/ TelegramPattern(s)
    \/ PrefixRun(s, <<>>, HexChar, 40)
    \/ PrefixRun(s, <<>>, Alnum \cup {"+", "/"}, 32)
    \/ PemPattern(s)
    \/ JwtPattern(s)
    \/ BearerPattern(s)

-----------------------------------------------------------------------------
(* redact.ts: Shannon entropy.  The comparison entropy >= threshold is     *)
(* decided in fixed point: with c(x) the count of character x and n the    *)
(* length, entropy = log2(n) - (1/n) SUM c(x) log2(c(x)).                  *)

LogScale == 10000

\* round(log2(n) * LogScale) for n = 1..96, exact on the powers of two
Log2Table == <<
    0, 10000, 15850, 20000, 23219, 25850, 28074, 30000,
    31699, 33219, 34594, 35850, 37004, 38074, 39069, 40000,
    40875, 41699, 42479, 43219, 43923, 44594, 45236, 45850,
    46439, 47004, 47549, 48074, 48580, 49069, 49542, 50000,
    50444, 50875, 51293, 51699, 52095, 52479, 52854, 53219,
    53576, 53923, 54263, 54594, 54919, 55236, 55546, 55850,
    56147, 56439, 56724, 57004, 57279, 57549, 57814, 58074,
    58329, 58580, 58826, 59069, 59307, 59542, 59773, 60000,
    60224, 60444, 60661, 60875, 61085, 61293, 61497, 61699,
    61898, 62095, 62288, 62479, 62668, 62854, 63038, 63219,
    63399, 63576, 63750, 63923, 64094, 64263, 64429, 64594,
    64757, 64919, 65078, 65236, 65392, 65546, 65699, 65850>>

\* freq.get(c): the number of occurrences of c in s
CharCount(s, c) == Cardinality({i \in 1..Len(s) : s[i] = c})

RECURSIVE SumLogCounts(_, _)
\* SUM over the distinct characters c of count(c) * log2(count(c)), taken
\* position by position: a character with count k stands at k positions
SumLogCounts(s, i) ==
    IF i = 0 THEN 0
    ELSE Log2Table[CharCount(s, s[i])] + SumLogCounts(s, i - 1)

\* shannonEntropy(s) * s.length * LogScale
shannonEntropyScaled(s) ==
    IF Len(s) = 0 THEN 0
    ELSE Len(s) * Log2Table[Len(s)] - SumLogCounts(s, Len(s))

\* HIGH_ENTROPY_THRESHOLD = 3.0, in tenths
HIGH_ENTROPY_THRESHOLD_X10 == 30

HIGH_ENTROPY_MIN_LENGTH == 12

\* isHighEntropy(s): s.length >= 12 and shannonEntropy(s) >= 3.0
isHighEntropy(s) ==
    /\ Len(s) >= HIGH_ENTROPY_MIN_LENGTH
    /\ 10 * shannonEntropyScaled(s) >= HIGH_ENTROPY_THRESHOLD_X10 * LogScale * Len(s)

-----------------------------------------------------------------------------
(* redact.ts: English bigram analysis and the non-secret heuristic.        *)

COMMON_BIGRAMS == {
    <<"t","h">>, <<"h","e">>, <<"i","n">>, <<"e","r">>, <<"a","n">>, <<"r","e">>, <<"o","n">>, <<"e","n">>, <<"a","t">>, <<"e","s">>,
    <<"e","d">>, <<"t","e">>, <<"t","i">>, <<"o","r">>, <<"s","t">>, <<"a","r">>, <<"n","d">>, <<"t","o">>, <<"n","t">>, <<"i","s">>,
    <<"o","f">>, <<"i","t">>, <<"a","l">>, <<"a","s">>, <<"h","a">>, <<"n","g">>, <<"c","o">>, <<"s","e">>, <<"m","e">>, <<"d","e">>,
    <<"l","e">>, <<"o","u">>, <<"n","o">>, <<"n","e">>, <<"e","a">>, <<"r","i">>, <<"r","o">>, <<"l","i">>, <<"r","a">>, <<"i","o">>,
    <<"i","c">>, <<"e","l">>, <<"l","a">>, <<"v","e">>, <<"t","a">>, <<"c","e">>, <<"m","a">>, <<"s","i">>, <<"o","m">>, <<"u","r">>,
    <<"e","c">>, <<"i","l">>, <<"g","e">>, <<"l","o">>, <<"c","h">>, <<"s","o">>, <<"p","r">>, <<"p","e">>, <<"f","o">>, <<"c","a">>,
    <<"d","i">>, <<"b","e">>, <<"m","o">>, <<"a","g">>, <<"u","n">>, <<"u","s">>, <<"w","i">>, <<"h","i">>, <<"s","h">>, <<"a","c">>,
    <<"a","d">>, <<"o","l">>, <<"a","b">>, <<"m","i">>, <<"i","m">>, <<"i","d">>, <<"o","o">>, <<"k","e">>, <<"k","i">>, <<"s","u">>,
    <<"p","o">>, <<"p","a">>, <<"w","a">>, <<"u","p">>, <<"d","o">>, <<"f","i">>, <<"h","o">>, <<"d","a">>, <<"f","e">>, <<"v","i">>,
    <<"o","w">>, <<"a","m">>, <<"u","t">>, <<"n","i">>, <<"l","u">>, <<"t","r">>, <<"p","l">>, <<"b","l">>, <<"s","p">>, <<"c","r">>,
    <<"n","a">>, <<"o","t">>, <<"n","s">>, <<"l","l">>, <<"s","s">>, <<"w","h">>, <<"c","k">>, <<"g","h">>, <<"r","y">>, <<"l","y">>,
    <<"t","y">>, <<"a","y">>, <<"e","y">>}

UpperSeq == <<"A","B","C","D","E","F","G","H","I","J","K","L","M",
              "N","O","P","Q","R","S","T","U","V","W","X","Y","Z">>

LowerSeq == <<"a","b","c","d","e","f","g","h","i","j","k","l","m",
              "n","o","p","q","r","s","t","u","v","w","x","y","z">>

\* s.toLowerCase()
ToLowerCase(s) ==
    [i \in 1..Len(s) |->
        IF s[i] \in Upper
        THEN LowerSeq[CHOOSE k \in 1..26 : UpperSeq[k] = s[i]]
        ELSE s[i]]

\* looksLikeEnglish(seg): at least 30% of the adjacent pairs are common bigrams
looksLikeEnglish(seg) ==
    LET s    == ToLowerCase(seg)
        n    == Len(s) - 1
        hits == Cardinality({i \in 1..n : <<s[i], s[i + 1]>> \in COMMON_BIGRAMS})
    IN  IF n <= 0 THEN TRUE ELSE 10 * hits >= 3 * n

\* isWordLikeSegment(seg)
isWordLikeSegment(seg) ==
    IF Len(seg) <= 3 THEN TRUE
    ELSE IF \A i \in 1..Len(seg) : seg[i] \in Upper THEN TRUE
    ELSE IF \A i \in 1..Len(seg) : seg[i] \in Digit THEN TRUE
    ELSE IF \A i \in 1..Len(seg) : seg[i] \in Lower \cup Upper THEN looksLikeEnglish(seg)
    ELSE FALSE

\* s.split(/[^a-zA-Z0-9]+/).filter((seg) => seg.length > 0): the maximal
\* alphanumeric runs of s
Segments(s) ==
    {Slice(s, i, RunEnd(s, Alnum, i) - 1) :
        i \in {j \in 1..Len(s) : s[j] \in Alnum /\ (j = 1 \/ s[j - 1] \notin Alnum)}}

\* looksLikeNonSecret(s)
looksLikeNonSecret(s) ==
    IF Len(s) >= 2 /\ s[1] = "[" /\ s[Len(s)] = "]" THEN TRUE
    ELSE IF Len(s) >= 2 /\ s[1] = "{" /\ s[Len(s)] = "}" THEN TRUE
    ELSE IF \/ StartsWithAt(ToLowerCase(s), <<"h","t","t","p",":","/","/">>, 1)
            \/ StartsWithAt(ToLowerCase(s), <<"h","t","t","p","s",":","/","/">>, 1) THEN TRUE
    ELSE IF \/ StartsWithAt(s, <<"/">>, 1)
            \/ (Len(s) >= 2 /\ s[1] \in {"~", "."} /\ s[2] = "/") THEN TRUE
    ELSE IF Segments(s) = {} THEN FALSE
    ELSE \A seg \in Segments(s) : isWordLikeSegment(seg)

-----------------------------------------------------------------------------
(* redact.ts: sha256Prefix.  SHA-256 itself is not modelled: the digest is *)
(* a deterministic function of the characters of the string with an        *)
(* 8-hex-digit value, computed here by two 16-bit polynomial hashes.       *)

\* the printable ASCII characters in code order, from " " (32) to "~" (126),
\* without the grave accent (96), which no string of the model holds
Printable == <<
    " ","!","\"","#","$","%","&","'","(",")","*","+",",","-",".","/",
    "0","1","2","3","4","5","6","7","8","9",":",";","<","=",">","?",
    "@","A","B","C","D","E","F","G","H","I","J","K","L","M","N","O",
    "P","Q","R","S","T","U","V","W","X","Y","Z","[","\\","]","^","_",
    "a","b","c","d","e","f","g","h","i","j","k","l","m","n","o",
    "p","q","r","s","t","u","v","w","x","y","z","{","|","}","~">>

CharCode(c) ==
    IF c = "\t" THEN 9 ELSE IF c = "\n" THEN 10 ELSE IF c = "\r" THEN 13
    ELSE LET k == CHOOSE j \in 1..Len(Printable) : Printable[j] = c
         IN  IF k <= 64 THEN 31 + k ELSE 32 + k

RECURSIVE PolyHash(_, _, _)
PolyHash(s, mult, i) ==
    IF i = 0 THEN 7
    ELSE (PolyHash(s, mult, i - 1) * mult + CharCode(s[i])) % 65536

HexDigits == <<"0","1","2","3","4","5","6","7","8","9","a","b","c","d","e","f">>

\* four lowercase hex digits of a 16-bit number
Hex4(n) ==
    <<HexDigits[(n \div 4096) + 1], HexDigits[((n \div 256) % 16) + 1],
      HexDigits[((n \div 16) % 16) + 1], HexDigits[(n % 16) + 1]>>

\* createHash("sha256").update(s).digest("hex").slice(0, 8)
sha256Prefix(s) == Hex4(PolyHash(s, 31, Len(s))) \o Hex4(PolyHash(s, 131, Len(s)))

-----------------------------------------------------------------------------
(* redact.ts: extraction of the "value" part of a line.                    *)

\* least position >= i whose character is in class (Len(s) + 1 if none)
NextIn(s, class, i) ==
    LET hit == {j \in i..Len(s) : s[j] \in class}
    IN  IF hit = {} THEN Len(s) + 1 ELSE CHOOSE j \in hit : \A k \in hit : j <= k

\* "." of a regular expression without the s flag: no line terminator
NoLineTerminator(s) == \A i \in 1..Len(s) : s[i] \notin {"\n", "\r"}

\* /^[A-Za-z_][A-Za-z0-9_]*\s*=\s*(.+)$/ on t: group 1, or Null
EnvMatch(t) ==
    LET k == RunEnd(t, Alnum \cup {"_"}, 2)
        w == RunEnd(t, WhiteSpace, k)
        v == RunEnd(t, WhiteSpace, w + 1)
    IN  IF /\ Len(t) >= 1 /\ t[1] \in Lower \cup Upper \cup {"_"}
           /\ w <= Len(t) /\ t[w] = "="
           /\ v <= Len(t)
           /\ NoLineTerminator(Slice(t, v, Len(t)))
        THEN Slice(t, v, Len(t)) ELSE Null

\* /^[A-Za-z_][A-Za-z0-9_.-]*\s*:\s+(.+)$/ on t: group 1, or Null
YamlMatch(t) ==
    LET k == RunEnd(t, Alnum \cup {"_", ".", "-"}, 2)
        w == RunEnd(t, WhiteSpace, k)
        v == RunEnd(t, WhiteSpace, w + 1)
    IN  IF /\ Len(t) >= 1 /\ t[1] \in Lower \cup Upper \cup {"_"}
           /\ w <= Len(t) /\ t[w] = ":"
           /\ v > w + 1
           /\ v <= Len(t)
           /\ NoLineTerminator(Slice(t, v, Len(t)))
        THEN Slice(t, v, Len(t)) ELSE Null

\* /"[^"]+"\s*:\s*"([^"]+)"/ tried at position i of t: group 1, or Null
JsonMatchAt(t, i) ==
    LET j == NextIn(t, {"\""}, i + 1)
        k == RunEnd(t, WhiteSpace, j + 1)
        m == RunEnd(t, WhiteSpace, k + 1)
        n == NextIn(t, {"\""}, m + 1)
    IN  IF /\ t[i] = "\""
           /\ j <= Len(t) /\ j > i + 1
           /\ k <= Len(t) /\ t[k] = ":"
           /\ m <= Len(t) /\ t[m] = "\""
           /\ n <= Len(t) /\ n > m + 1
        THEN Slice(t, m + 1, n - 1) ELSE Null

\* t.match(/"[^"]+"\s*:\s*"([^"]+)"/): group 1 of the leftmost match, or Null
JsonMatch(t) ==
    LET hits == {i \in 1..Len(t) : JsonMatchAt(t, i) # Null}
    IN  IF hits = {} THEN Null
        ELSE JsonMatchAt(t, CHOOSE i \in hits : \A j \in hits : i <= j)

\* extractValueCandidates(line)
extractValueCandidates(line) ==
    LET trimmed == Trim(line)
        one(m)  == IF m = Null THEN <<>> ELSE <<m>>
    IN  IF StartsWithAt(trimmed, <<"#">>, 1) \/ StartsWithAt(trimmed, <<"/", "/">>, 1)
        THEN <<>>
        ELSE one(EnvMatch(trimmed)) \o one(YamlMatch(trimmed)) \o one(JsonMatch(trimmed))

\* candidate.trim().replace(/^["']|["'],?$/g, ""): a leading quote, and a
\* trailing quote with an optional comma after it, are removed
StripQuotes(candidate) ==
    LET c     == Trim(candidate)
        lead  == Len(c) >= 1 /\ c[1] \in QuoteChar
        first == IF lead THEN 2 ELSE 1
        n     == Len(c)
    IN  IF n >= first /\ c[n] \in QuoteChar THEN Slice(c, first, n - 1)
        ELSE IF n - 1 >= first /\ c[n] = "," /\ c[n - 1] \in QuoteChar
             THEN Slice(c, first, n - 2)
        ELSE Slice(c, first, n)

\* the test both redactUnvaultedTokens and restoreUnvaulted apply to a
\* trimmed candidate
SecretLike(trimmed) ==
    \/ matchesSecretPattern(trimmed)
    \/ (isHighEntropy(trimmed) /\ ~looksLikeNonSecret(trimmed))

-----------------------------------------------------------------------------
(* redact.ts: redact (for `read`).                                          *)

RECURSIVE RedactCandidates(_, _, _, _)
\* the loop over valueCandidates of one line, from candidate i on
RedactCandidates(result, candidates, knownValues, i) ==
    IF i > Len(candidates) THEN result
    ELSE LET candidate == candidates[i]
             trimmed   == StripQuotes(candidate)
             next      ==
                 IF Len(trimmed) < HIGH_ENTROPY_MIN_LENGTH THEN result
                 ELSE IF MapHas(knownValues, trimmed) THEN result
                 ELSE IF SecretLike(trimmed)
                      THEN ReplaceFirst(result, candidate,
                                        UnvaultedPlaceholder(sha256Prefix(trimmed)))
                 ELSE result
         IN  RedactCandidates(next, candidates, knownValues, i + 1)

\* the callback redactUnvaultedTokens maps over the lines
RedactLine(line, knownValues) ==
    IF Includes(line, PlaceholderOpen) THEN line
    ELSE RedactCandidates(line, extractValueCandidates(line), knownValues, 1)

\* redactUnvaultedTokens(content, knownValues)
redactUnvaultedTokens(text, knownValues) ==
    LET lines == SplitLines(text)
    IN  JoinLines([i \in 1..Len(lines) |-> RedactLine(lines[i], knownValues)])

\* [...secretValues.entries()].filter(([value]) => value.length >= MIN_REDACT_LENGTH)
LongEnough(entries) == SelectSeq(entries, LAMBDA e : Len(e[1]) >= MIN_REDACT_LENGTH)

RECURSIVE ReplaceKnown(_, _, _)
\* the Phase 1 loop: for (const [value, key] of entries) result = result.split(value).join(...)
ReplaceKnown(result, entries, i) ==
    IF i > Len(entries) THEN result
    ELSE ReplaceKnown(SplitJoin(result, entries[i][1], Placeholder(entries[i][2])),
                      entries, i + 1)

\* Phase 1 of redact
RedactKnown(text, knownValues) ==
    ReplaceKnown(text, SortByLengthDesc(LongEnough(knownValues)), 1)

\* redact(content, secretValues)
redact(text, knownValues) ==
    redactUnvaultedTokens(RedactKnown(text, knownValues), knownValues)

-----------------------------------------------------------------------------
(* redact.ts: restore, restoreUnvaulted, extractPlaceholders (for `write`). *)
(* getSecret is given as a function from names to lookup results:           *)
(*   [kind |-> "value", value |-> v]   the secret                           *)
(*   [kind |-> "null"]                 no such secret                       *)
(*   [kind |-> "throw", error |-> e]   the lookup throws or exits           *)

\* the next match of PLACEHOLDER_RE in s at or after position i: where it
\* starts, or 0
NextPlaceholder(s, i) ==
    LET hits == {p \in i..Len(s) : PlaceholderEndAt(s, p) # 0}
    IN  IF hits = {} THEN 0 ELSE CHOOSE p \in hits : \A q \in hits : p <= q

\* the next match of UNVAULTED_RE in s at or after position i, or 0
NextUnvaulted(s, i) ==
    LET hits == {p \in i..Len(s) : UnvaultedEndAt(s, p) # 0}
    IN  IF hits = {} THEN 0 ELSE CHOOSE p \in hits : \A q \in hits : p <= q

RECURSIVE PlaceholderNamesFrom(_, _)
\* the names PLACEHOLDER_RE captures in s, from position i on, in order
PlaceholderNamesFrom(s, i) ==
    LET p == NextPlaceholder(s, i)
        e == PlaceholderEndAt(s, p)
    IN  IF p = 0 THEN <<>>
        ELSE <<Slice(s, p + Len(PlaceholderOpen), e - 1)>> \o PlaceholderNamesFrom(s, e + 1)

Range(seq) == {seq[i] : i \in 1..Len(seq)}

RECURSIVE Distinct(_)
\* seq without the repetitions of an element, first occurrences kept
Distinct(seq) ==
    IF seq = <<>> THEN <<>>
    ELSE LET init == Distinct(SubSeq(seq, 1, Len(seq) - 1))
         IN  IF seq[Len(seq)] \in Range(init) THEN init ELSE Append(init, seq[Len(seq)])

\* extractPlaceholders(content)
extractPlaceholders(text) == Distinct(PlaceholderNamesFrom(text, 1))

RECURSIVE RestoreFrom(_, _, _, _)
\* content.replace(PLACEHOLDER_RE, callback) from position i on; acc holds the
\* text produced and the restored and missing lists so far
RestoreFrom(s, getSecret, i, acc) ==
    LET p     == NextPlaceholder(s, i)
        e     == PlaceholderEndAt(s, p)
        key   == Slice(s, p + Len(PlaceholderOpen), e - 1)
        value == getSecret[key]
    IN  IF p = 0 THEN [acc EXCEPT !.content = @ \o Slice(s, i, Len(s))]
        ELSE IF value.kind \notin {"value", "null"}
        THEN [acc EXCEPT !.error = value.error]
        ELSE IF value.kind = "null"
        THEN RestoreFrom(s, getSecret, e + 1,
                 [content  |-> acc.content \o Slice(s, i, e),
                  restored |-> acc.restored,
                  missing  |-> Append(acc.missing, key),
                  error    |-> acc.error])
        ELSE RestoreFrom(s, getSecret, e + 1,
                 [content  |-> acc.content \o Slice(s, i, p - 1) \o value.value,
                  restored |-> Append(acc.restored, key),
                  missing  |-> acc.missing,
                  error    |-> acc.error])

\* no error raised: the empty text
NoError == <<>>

\* restore that records no name as restored
restore_RecordsNothing(text, getSecret) ==
    [RestoreFrom(text, getSecret, 1,
                 [content |-> <<>>, restored |-> <<>>, missing |-> <<>>, error |-> NoError])
        EXCEPT !.restored = <<>>]

\* restore(content, getSecret): { content, restored, missing }, or the error
\* getSecret raised
restore(text, getSecret) ==
    RestoreFrom(text, getSecret, 1,
                [content |-> <<>>, restored |-> <<>>, missing |-> <<>>, error |-> NoError])

RECURSIVE HashCandidates(_, _, _)
\* the inner loop of restoreUnvaulted over the candidates of one line
HashCandidates(hashToValue, candidates, i) ==
    IF i > Len(candidates) THEN hashToValue
    ELSE LET trimmed == StripQuotes(candidates[i])
             next    ==
                 IF Len(trimmed) < HIGH_ENTROPY_MIN_LENGTH THEN hashToValue
                 ELSE IF SecretLike(trimmed)
                      THEN MapSet(hashToValue, sha256Prefix(trimmed), trimmed)
                 ELSE hashToValue
         IN  HashCandidates(next, candidates, i + 1)

RECURSIVE HashLines(_, _, _)
\* the outer loop of restoreUnvaulted over the lines of the existing file
HashLines(hashToValue, lines, i) ==
    IF i > Len(lines) THEN hashToValue
    ELSE HashLines(HashCandidates(hashToValue, extractValueCandidates(lines[i]), 1),
                   lines, i + 1)

RECURSIVE RestoreUnvaultedFrom(_, _, _, _)
\* content.replace(UNVAULTED_RE, callback) from position i on
RestoreUnvaultedFrom(s, hashToValue, i, acc) ==
    LET p     == NextUnvaulted(s, i)
        e     == UnvaultedEndAt(s, p)
        hash  == Slice(s, e - 8, e - 1)
        value == MapGet(hashToValue, hash)
    IN  IF p = 0 THEN [acc EXCEPT !.content = @ \o Slice(s, i, Len(s))]
        ELSE IF value # Null
        THEN RestoreUnvaultedFrom(s, hashToValue, e + 1,
                 [content       |-> acc.content \o Slice(s, i, p - 1) \o value,
                  restoredCount |-> acc.restoredCount + 1,
                  unmatched     |-> acc.unmatched])
        ELSE RestoreUnvaultedFrom(s, hashToValue, e + 1,
                 [content       |-> acc.content \o Slice(s, i, e),
                  restoredCount |-> acc.restoredCount,
                  unmatched     |-> Append(acc.unmatched, hash)])

\* restoreUnvaulted that builds no table from the existing file
restoreUnvaulted_NoTable(text, existingContent) ==
    RestoreUnvaultedFrom(text, <<>>, 1,
                         [content |-> <<>>, restoredCount |-> 0, unmatched |-> <<>>])

\* restoreUnvaulted(content, existingContent)
restoreUnvaulted(text, existingContent) ==
    RestoreUnvaultedFrom(text, HashLines(<<>>, SplitLines(existingContent), 1), 1,
                         [content |-> <<>>, restoredCount |-> 0, unmatched |-> <<>>])

-----------------------------------------------------------------------------
(* vault.ts: the vault directory holds vault.key and vault.json.  The disk *)
(* state a function works on is d = [key, json]: key is the content of     *)
(* vault.key (or NoFile), json the content of vault.json.                  *)

\* vault.json does not exist
NoVaultJson == [exists |-> FALSE, secrets |-> <<>>]

\* JSON.stringify({ secrets }): the object's own properties, in property order
VaultJson(secrets) == [exists |-> TRUE, secrets |-> secrets]

MaxMasterKeys == 1

\* randomBytes(32).toString("hex"): the master keys the generator may return
MasterKeys == {<<"m", HexDigits[k]>> : k \in 1..MaxMasterKeys}

MaxNonces == 2

\* randomBytes(12): the nonces the generator may return
Nonces == 1..MaxNonces

MaxTimes == 1

\* new Date().toISOString(): the instants the clock may show
Times == 1..MaxTimes

\* vaultExists()
vaultExists(d) == d.json.exists

\* an initVault that writes a fresh key and an empty vault every time
initVault_Regenerating(d, masterKey) ==
    [key |-> masterKey, json |-> VaultJson(<<>>)]

\* initVault(): nothing when vault.json exists; else writes a fresh master
\* key and an empty vault
initVault(d, masterKey) ==
    IF d.json.exists THEN d
    ELSE [key |-> masterKey, json |-> VaultJson(<<>>)]

\* a function's outcome when it ends the process or throws instead of returning
Exits(msg) == [kind |-> "exit", error |-> msg]

Throws(msg) == [kind |-> "throw", error |-> msg]

\* console.error text of requireVault (the status glyphs, not ASCII, are left out)
MsgNoVault == <<"N","o"," ","v","a","u","l","t"," ","f","o","u","n","d","."," ","R","u","n",":"," ","a","g","e","n","t","-","v","a","u","l","t"," ","i","n","i","t","\n">>

\* console.error text of loadMasterKey
MsgNoKey == <<"V","a","u","l","t"," ","k","e","y"," ","n","o","t"," ","f","o","u","n","d","."," ","V","a","u","l","t"," ","m","a","y"," ","b","e"," ","c","o","r","r","u","p","t","e","d",".","\n">>

\* the uncaught exception of reading a property of undefined
MsgTypeError == <<"T","y","p","e","E","r","r","o","r",":"," ","C","a","n","n","o","t"," ","r","e","a","d"," ","p","r","o","p","e","r","t","i","e","s"," ","o","f"," ","u","n","d","e","f","i","n","e","d"," ","(","r","e","a","d","i","n","g"," ","'","s","p","l","i","t","'",")","\n">>

\* the uncaught exception of decipher.final on a wrong key, nonce or tag
MsgAuthError == <<"E","r","r","o","r",":"," ","U","n","s","u","p","p","o","r","t","e","d"," ","s","t","a","t","e"," ","o","r"," ","u","n","a","b","l","e"," ","t","o"," ","a","u","t","h","e","n","t","i","c","a","t","e"," ","d","a","t","a","\n">>

\* loadMasterKey(): the key, or the process exits
loadMasterKey(d) ==
    IF d.key = NoFile THEN Exits(MsgNoKey)
    ELSE [kind |-> "value", value |-> d.key]

\* a UTF-16 code unit that is half of a surrogate pair on its own, and the
\* replacement character U+FFFD, each one element of a string
LoneSurrogate == "U+D800"

ReplacementChar == "U+FFFD"

\* Buffer.from(s, "utf8").toString("utf8"): the encoder writes U+FFFD for a
\* lone surrogate; every other character of the model comes back as it was
Utf8RoundTrip(s) ==
    [i \in 1..Len(s) |-> IF s[i] = LoneSurrogate THEN ReplacementChar ELSE s[i]]

\* buf.toString("hex"): the lowercase hex text of the bytes buf
ToHex(buf) == [of |-> buf, text |-> "hex"]

\* the ways a hex text in vault.json can be altered by hand: its letters put
\* in upper case, a digit replaced by another, the text cut to its first
\* eight digits
Alterations == {"uppercase", "digit", "truncated"}

\* Buffer.from(hex, "hex"): digits decode whatever their case; a changed
\* digit gives other bytes; a cut text gives the first four bytes only
FromHex(hex) ==
    [of    |-> hex.of,
     bytes |-> CASE hex.text \in {"hex", "uppercase"} -> "all"
                 [] hex.text = "truncated" -> "first4"
                 [] OTHER -> "other"]

\* an encrypt that stores the nonce it drew but encrypts under a fixed one
encrypt_UnderFixedNonce(plaintext, key, iv) ==
    [iv  |-> ToHex(iv),
     tag |-> ToHex([key |-> key, iv |-> 1, plaintext |-> Utf8RoundTrip(plaintext)]),
     ct  |-> ToHex([key |-> key, iv |-> 1, plaintext |-> Utf8RoundTrip(plaintext)])]

\* encrypt(plaintext, key) with the nonce iv it drew: "iv:tag:ciphertext".
\* AES-256-GCM is symbolic: the ciphertext and the tag are terms over the
\* key, the nonce and the UTF-8 bytes of the plaintext.
encrypt(plaintext, key, iv) ==
    [iv  |-> ToHex(iv),
     tag |-> ToHex([key |-> key, iv |-> iv, plaintext |-> Utf8RoundTrip(plaintext)]),
     ct  |-> ToHex([key |-> key, iv |-> iv, plaintext |-> Utf8RoundTrip(plaintext)])]

\* decrypt(packed, key): the plaintext when the key, the nonce and the
\* ciphertext are the ones of the encryption and the tag given is the tag of
\* the encryption or, setAuthTag being given no authTagLength, its first four
\* bytes; decipher.final throws otherwise
decrypt(packed, key) ==
    LET iv  == FromHex(packed.iv)
        tag == FromHex(packed.tag)
        ct  == FromHex(packed.ct)
    IN  IF /\ ct.of.key = key
           /\ ct.bytes = "all"
           /\ iv.of = ct.of.iv /\ iv.bytes = "all"
           /\ tag.of = ct.of /\ tag.bytes \in {"all", "first4"}
        THEN [kind |-> "value", value |-> ct.of.plaintext]
        ELSE Throws(MsgAuthError)

\* the property names every object inherits from Object.prototype
ProtoKeys == {
    <<"c","o","n","s","t","r","u","c","t","o","r">>, <<"t","o","S","t","r","i","n","g">>, <<"v","a","l","u","e","O","f">>, <<"h","a","s","O","w","n","P","r","o","p","e","r","t","y">>,
    <<"i","s","P","r","o","t","o","t","y","p","e","O","f">>, <<"p","r","o","p","e","r","t","y","I","s","E","n","u","m","e","r","a","b","l","e">>, <<"t","o","L","o","c","a","l","e","S","t","r","i","n","g">>,
    <<"_","_","p","r","o","t","o","_","_">>}

\* own property test on the parsed secrets object
HasOwn(secrets, key) == \E i \in 1..Len(secrets) : secrets[i][1] = key

\* key in data.secrets: own or inherited
In(secrets, key) == HasOwn(secrets, key) \/ key \in ProtoKeys

\* an array index in canonical form ("0", "7", "42"): such property names
\* come first in property order, by numeric value
IsIndexKey(key) ==
    /\ Len(key) >= 1
    /\ \A i \in 1..Len(key) : key[i] \in Digit
    /\ (key[1] = "0" => Len(key) = 1)

RECURSIVE IndexValue(_, _)
IndexValue(key, i) ==
    IF i = 0 THEN 0
    ELSE 10 * IndexValue(key, i - 1)
         + ((CHOOSE k \in 1..10 : HexDigits[k] = key[i]) - 1)

\* where a new property named key is placed among the own properties
InsertAt(secrets, key) ==
    IF IsIndexKey(key)
    THEN 1 + Cardinality({i \in 1..Len(secrets) :
                 /\ IsIndexKey(secrets[i][1])
                 /\ IndexValue(secrets[i][1], Len(secrets[i][1])) < IndexValue(key, Len(key))})
    ELSE Len(secrets) + 1

\* data.secrets[key] = entry.  Assigning to "__proto__" runs the setter
\* inherited from Object.prototype: it changes the prototype of the object in
\* memory and creates no own property, so JSON.stringify writes nothing of it.
ObjSet(secrets, key, entry) ==
    IF key = <<"_","_","p","r","o","t","o","_","_">> /\ ~HasOwn(secrets, key) THEN secrets
    ELSE IF HasOwn(secrets, key)
    THEN [i \in 1..Len(secrets) |->
             IF secrets[i][1] = key THEN <<key, entry>> ELSE secrets[i]]
    ELSE LET p == InsertAt(secrets, key)
         IN  Slice(secrets, 1, p - 1) \o << <<key, entry>> >> \o Slice(secrets, p, Len(secrets))

\* delete data.secrets[key]
ObjDelete(secrets, key) == SelectSeq(secrets, LAMBDA e : e[1] # key)

\* data.secrets[key]: the own entry, an inherited (truthy) value whose .value
\* is undefined, or undefined
ObjGet(secrets, key) ==
    IF HasOwn(secrets, key)
    THEN [kind |-> "own", entry |-> secrets[CHOOSE i \in 1..Len(secrets) : secrets[i][1] = key][2]]
    ELSE IF key \in ProtoKeys THEN [kind |-> "inherited"]
    ELSE [kind |-> "undefined"]

\* loadVaultData().secrets
loadVaultData(d) == IF d.json.exists THEN d.json.secrets ELSE <<>>

\* saveVaultData(data)
saveVaultData(d, secrets) == [d EXCEPT !.json = VaultJson(secrets)]

\* a setSecret that leaves an entry that exists as it is
setSecret_KeepsExisting(d, key, value, desc, iv, now) ==
    LET masterKey == loadMasterKey(d)
    IN  IF masterKey.kind # "value" THEN masterKey
        ELSE IF HasOwn(loadVaultData(d), key) THEN [kind |-> "value", value |-> d]
        ELSE [kind |-> "value",
              value |-> saveVaultData(d,
                  ObjSet(loadVaultData(d), key,
                         [value     |-> encrypt(value, masterKey.value, iv),
                          desc      |-> desc,
                          createdAt |-> now]))]

\* setSecret(key, value, desc) with the nonce and the instant it drew: the
\* disk after it, or the process exits
setSecret(d, key, value, desc, iv, now) ==
    LET masterKey == loadMasterKey(d)
    IN  IF masterKey.kind # "value" THEN masterKey
        ELSE [kind |-> "value",
              value |-> saveVaultData(d,
                  ObjSet(loadVaultData(d), key,
                         [value     |-> encrypt(value, masterKey.value, iv),
                          desc      |-> desc,
                          createdAt |-> now]))]

\* getSecretValue(key): the plaintext, null, or the process exits or throws
getSecretValue(d, key) ==
    LET masterKey == loadMasterKey(d)
        entry     == ObjGet(loadVaultData(d), key)
    IN  IF masterKey.kind # "value" THEN masterKey
        ELSE IF entry.kind = "undefined" THEN [kind |-> "null"]
        ELSE IF entry.kind = "inherited" THEN Throws(MsgTypeError)
        ELSE decrypt(entry.entry.value, masterKey.value)

\* getSecretMeta(key): { desc, createdAt, length }, null, or exits or throws
getSecretMeta(d, key) ==
    LET masterKey == loadMasterKey(d)
        entry     == ObjGet(loadVaultData(d), key)
        plain     == decrypt(entry.entry.value, masterKey.value)
    IN  IF masterKey.kind # "value" THEN masterKey
        ELSE IF entry.kind = "undefined" THEN [kind |-> "null"]
        ELSE IF entry.kind = "inherited" THEN Throws(MsgTypeError)
        ELSE IF plain.kind # "value" THEN plain
        ELSE [kind |-> "value",
              value |-> [desc      |-> entry.entry.desc,
                         createdAt |-> entry.entry.createdAt,
                         length    |-> Len(plain.value)]]

\* hasSecret(key)
hasSecret(d, key) == In(loadVaultData(d), key)

\* listSecrets(): the { key, desc } of the own properties, in property order
listSecrets(d) ==
    LET secrets == loadVaultData(d)
    IN  [i \in 1..Len(secrets) |-> [key |-> secrets[i][1], desc |-> secrets[i][2].desc]]

\* a removeSecret that deletes every entry
removeSecret_DeletesAll(d, key) ==
    IF ~In(loadVaultData(d), key) THEN [removed |-> FALSE, d |-> d]
    ELSE [removed |-> TRUE, d |-> saveVaultData(d, <<>>)]

\* removeSecret(key): whether the key was "in" the object, and the disk after
removeSecret(d, key) ==
    IF ~In(loadVaultData(d), key) THEN [removed |-> FALSE, d |-> d]
    ELSE [removed |-> TRUE, d |-> saveVaultData(d, ObjDelete(loadVaultData(d), key))]

RECURSIVE AllSecretValuesFrom(_, _, _, _)
\* the loop of getAllSecretValues over Object.entries, from entry i on
AllSecretValuesFrom(secrets, masterKey, i, map) ==
    IF i > Len(secrets) THEN [kind |-> "value", value |-> map]
    ELSE LET value == decrypt(secrets[i][2].value, masterKey)
         IN  IF value.kind # "value" THEN value
             ELSE AllSecretValuesFrom(secrets, masterKey, i + 1,
                                      MapSet(map, value.value, secrets[i][1]))

\* getAllSecretValues(): the Map value -> name, or the process exits or throws
getAllSecretValues(d) ==
    LET masterKey == loadMasterKey(d)
    IN  IF masterKey.kind # "value" THEN masterKey
        ELSE AllSecretValuesFrom(loadVaultData(d), masterKey.value, 1, <<>>)

-----------------------------------------------------------------------------
(* tty.ts and cli.ts.  A command handler is an operator from the disk      *)
(* state d = [key, json], the work file f and the command's inputs to the  *)
(* outcome of the process: exit code, text on stdout and stderr, and the   *)
(* disk and the work file it leaves.  process.exit(1) and an uncaught      *)
(* exception both end the process with code 1.  The status glyphs and the  *)
(* arrow of the messages, which are not ASCII, are left out or spelled.    *)

\* the path every file argument names
FileName == <<"a","p","p",".","e","n","v">>

\* end of the process
Done(code, stdout, stderr, d, f) ==
    [exit |-> code, stdout |-> stdout, stderr |-> stderr, d |-> d, file |-> f]

RECURSIVE Decimal(_)
\* String(n)
Decimal(n) ==
    IF n < 10 THEN <<HexDigits[n + 1]>>
    ELSE Decimal(n \div 10) \o <<HexDigits[(n % 10) + 1]>>

\* s.padStart(width)
PadStart(s, width) == [i \in 1..(IF width > Len(s) THEN width - Len(s) ELSE 0) |-> " "] \o s

\* s.endsWith(p)
EndsWith(s, p) == Len(s) >= Len(p) /\ StartsWithAt(s, p, Len(s) - Len(p) + 1)

\* console.error text of requireTTY(commandName)
MsgRequireTTY(commandName) ==
    <<"\"">> \o commandName \o <<"\""," ","r","e","q","u","i","r","e","s"," ","a","n"," ","i","n","t","e","r","a","c","t","i","v","e"," ","t","e","r","m","i","n","a","l"," ","(","T","T","Y",")",".","\n">>
    \o <<" "," ","T","h","i","s"," ","c","o","m","m","a","n","d"," ","h","a","n","d","l","e","s"," ","s","e","c","r","e","t"," ","v","a","l","u","e","s"," ","a","n","d"," ","c","a","n","n","o","t"," ","b","e"," ","r","u","n"," ","p","r","o","g","r","a","m","m","a","t","i","c","a","l","l","y",".","\n">>
    \o <<" "," ","P","l","e","a","s","e"," ","r","u","n"," ","i","t"," ","d","i","r","e","c","t","l","y"," ","i","n"," ","y","o","u","r"," ","t","e","r","m","i","n","a","l",".","\n">>

MsgFileNotFound == <<"F","i","l","e"," ","n","o","t"," ","f","o","u","n","d",":"," ">> \o FileName \o <<"\n">>

MsgProvideContent == <<"P","r","o","v","i","d","e"," ","c","o","n","t","e","n","t"," ","v","i","a"," ","-","-","c","o","n","t","e","n","t"," ","f","l","a","g"," ","o","r"," ","s","t","d","i","n","\n">>

RECURSIVE CatN(_, _)
\* the loop of `read` printing the lines in cat -n form, from line i on
CatN(outputLines, i) ==
    IF i > Len(outputLines) THEN <<>>
    ELSE LET width == Len(Decimal(Len(outputLines)))
             num   == PadStart(Decimal(i), IF width > 6 THEN width ELSE 6)
         IN  num \o <<"\t">> \o outputLines[i] \o <<"\n">> \o CatN(outputLines, i + 1)

\* the `read` command
read(d, f) ==
    IF f = NoFile THEN Done(1, <<>>, MsgFileNotFound, d, f)
    ELSE LET knownValues == IF vaultExists(d) THEN getAllSecretValues(d)
                             ELSE [kind |-> "value", value |-> <<>>]
         IN  IF knownValues.kind # "value" THEN Done(1, <<>>, knownValues.error, d, f)
             ELSE LET redacted == redact(f, knownValues.value)
                      lines    == SplitLines(redacted)
                      hasTrailingNewline ==
                          EndsWith(f, <<"\n">>) /\ lines[Len(lines)] = <<>>
                      outputLines ==
                          IF hasTrailingNewline THEN Slice(lines, 1, Len(lines) - 1)
                          ELSE lines
                  IN  Done(0, CatN(outputLines, 1), <<>>, d, f)

RECURSIVE AlsoMissing(_, _)
\* the loop of `write` over result.missing.slice(1)
AlsoMissing(missing, i) ==
    IF i > Len(missing) THEN <<>>
    ELSE <<" "," ","A","l","s","o"," ","m","i","s","s","i","n","g",":"," ","\"">> \o missing[i] \o <<"\""," ","-",">"," ","a","g","e","n","t","-","v","a","u","l","t"," ","s","e","t"," ">> \o missing[i]
         \o <<"\n">> \o AlsoMissing(missing, i + 1)

\* the console.error lines of `write` for a non-empty result.missing
MsgMissing(missing) ==
    <<"E","r","r","o","r",":"," ","S","e","c","r","e","t"," ","\"">> \o missing[1] \o <<"\""," ","n","o","t"," ","f","o","u","n","d"," ","i","n"," ","v","a","u","l","t","\n">>
    \o <<" "," ","T","o"," ","a","d","d"," ","i","t",","," ","t","h","e"," ","u","s","e","r"," ","s","h","o","u","l","d"," ","r","u","n",":"," ","a","g","e","n","t","-","v","a","u","l","t"," ","s","e","t"," ">> \o missing[1] \o <<"\n">>
    \o AlsoMissing(missing, 2)

MsgWritten(count) ==
    <<"W","r","i","t","t","e","n"," ">> \o FileName \o <<" ","(">> \o Decimal(count) \o <<" ","s","e","c","r","e","t">>
    \o (IF count # 1 THEN <<"s">> ELSE <<>>) \o <<" ","r","e","s","t","o","r","e","d",")","\n">>

\* the `write` command.  flag is the --content option (Null when absent),
\* piped what stdin holds when it is not a terminal.
write(d, f, flag, piped, tty) ==
    LET text == IF flag # Null THEN flag ELSE IF ~tty THEN piped ELSE Null
    IN  IF text = Null THEN Done(1, <<>>, MsgProvideContent, d, f)
        ELSE IF ~vaultExists(d) THEN Done(1, <<>>, MsgNoVault, d, f)
        ELSE LET result == restore(text,
                     [key \in Range(PlaceholderNamesFrom(text, 1)) |-> getSecretValue(d, key)])
             IN  IF result.error # NoError THEN Done(1, <<>>, result.error, d, f)
                 ELSE IF Len(result.missing) > 0
                 THEN Done(1, <<>>, MsgMissing(result.missing), d, f)
                 ELSE Done(0, MsgWritten(Len(result.restored)), <<>>, d, result.content)

\* requireTTY without the check of process.stdin.isTTY
requireTTY_Unchecked(tty) == TRUE

\* requireTTY(commandName): whether the process goes on
requireTTY(tty) == tty

\* confirm(prompt, defaultYes) given the line the user answers
confirm(answer, defaultYes) ==
    LET a == ToLowerCase(Trim(answer))
    IN  IF a = <<>> THEN defaultYes ELSE a \in {<<"y">>, <<"y","e","s">>}

\* what rl.question writes to stderr
PromptText(prompt, defaultYes) ==
    prompt \o (IF defaultYes THEN <<" ","[","Y","/","n","]"," ">> ELSE <<" ","[","y","/","N","]"," ">>)

\* String(b)
BoolText(b) == IF b THEN <<"t","r","u","e">> ELSE <<"f","a","l","s","e">>

\* JSON.stringify of a string that needs no escape
JsonString(s) == <<"\"">> \o s \o <<"\"">>

\* `has`: vaultExists() ? hasSecret(key) : false
HasKey(d, key) == IF vaultExists(d) THEN hasSecret(d, key) ELSE FALSE

RECURSIVE HasResult(_, _, _, _)
\* the loop of `has --json` filling result[key], from key i on
HasResult(d, keys, i, result) ==
    IF i > Len(keys) THEN result
    ELSE HasResult(d, keys, i + 1, ObjSet(result, keys[i], HasKey(d, keys[i])))

RECURSIVE JsonBoolMembers(_, _)
\* the members of JSON.stringify(result), from member i on
JsonBoolMembers(result, i) ==
    IF i > Len(result) THEN <<>>
    ELSE (IF i > 1 THEN <<",">> ELSE <<>>)
         \o JsonString(result[i][1]) \o <<":">> \o BoolText(result[i][2])
         \o JsonBoolMembers(result, i + 1)

RECURSIVE HasLines(_, _, _)
\* the loop of `has` over several keys: one line per key
HasLines(d, keys, i) ==
    IF i > Len(keys) THEN <<>>
    ELSE keys[i] \o <<":"," ">> \o BoolText(HasKey(d, keys[i])) \o <<"\n">>
         \o HasLines(d, keys, i + 1)

\* the `has` command
has(d, f, keys, json) ==
    IF json
    THEN LET result == HasResult(d, keys, 1, <<>>)
         IN  Done(IF \A i \in 1..Len(result) : result[i][2] THEN 0 ELSE 1,
                  <<"{">> \o JsonBoolMembers(result, 1) \o <<"}","\n">>, <<>>, d, f)
    ELSE IF Len(keys) = 1
    THEN Done(IF HasKey(d, keys[1]) THEN 0 ELSE 1,
              BoolText(HasKey(d, keys[1])) \o <<"\n">>, <<>>, d, f)
    ELSE Done(IF \A i \in 1..Len(keys) : HasKey(d, keys[i]) THEN 0 ELSE 1,
              HasLines(d, keys, 1), <<>>, d, f)

RECURSIVE JsonKeyObjects(_, _)
\* the elements of the "keys" array of JSON.stringify({ keys }, null, 2)
JsonKeyObjects(secrets, i) ==
    IF i > Len(secrets) THEN <<>>
    ELSE <<" "," "," "," ","{","\n"," "," "," "," "," "," ","\"","k","e","y","\"",":"," ">> \o JsonString(secrets[i].key)
         \o (IF secrets[i].desc # Null
             THEN <<",","\n"," "," "," "," "," "," ","\"","d","e","s","c","\"",":"," ">> \o JsonString(secrets[i].desc) ELSE <<>>)
         \o <<"\n"," "," "," "," ","}">> \o (IF i < Len(secrets) THEN <<",">> ELSE <<>>) \o <<"\n">>
         \o JsonKeyObjects(secrets, i + 1)

RECURSIVE KeyLines(_, _)
\* the loop of `list` printing one key per line
KeyLines(secrets, i) ==
    IF i > Len(secrets) THEN <<>>
    ELSE secrets[i].key \o <<"\n">> \o KeyLines(secrets, i + 1)

\* the `list` command
list(d, f, json) ==
    IF ~vaultExists(d)
    THEN Done(0, IF json THEN <<"{","\"","k","e","y","s","\"",":","[","]","}","\n">> ELSE <<>>, <<>>, d, f)
    ELSE LET secrets == listSecrets(d)
         IN  IF json
             THEN Done(0,
                       IF Len(secrets) = 0 THEN <<"{","\n"," "," ","\"","k","e","y","s","\"",":"," ","[","]","\n","}","\n">>
                       ELSE <<"{","\n"," "," ","\"","k","e","y","s","\"",":"," ","[","\n">> \o JsonKeyObjects(secrets, 1) \o <<" "," ","]","\n","}","\n">>,
                       <<>>, d, f)
             ELSE Done(0, KeyLines(secrets, 1), <<>>, d, f)

MsgSecretNotFound(key) == <<"S","e","c","r","e","t"," ","\"">> \o key \o <<"\""," ","n","o","t"," ","f","o","u","n","d","\n">>

MsgRevealNeedsTTY ==
    <<"-","-","r","e","v","e","a","l"," ","r","e","q","u","i","r","e","s"," ","a","n"," ","i","n","t","e","r","a","c","t","i","v","e"," ","t","e","r","m","i","n","a","l"," ","(","T","T","Y",")","\n">>
    \o <<" "," ","C","a","n","n","o","t"," ","p","i","p","e"," ","o","r"," ","r","e","d","i","r","e","c","t"," ","s","e","c","r","e","t"," ","v","a","l","u","e","s",".","\n">>

\* new Date(now).toISOString()
IsoString(now) == <<"2","0","2","6","-","0","1","-","0","1","T","0","0",":","0","0",":","0">> \o Decimal(now) \o <<".","0","0","0","Z">>

\* the `get` command; stdoutTTY is process.stdout.isTTY
get(d, f, key, reveal, tty, stdoutTTY) ==
    IF ~requireTTY(tty) THEN Done(1, <<>>, MsgRequireTTY(<<"a","g","e","n","t","-","v","a","u","l","t"," ","g","e","t">>), d, f)
    ELSE IF ~vaultExists(d) THEN Done(1, <<>>, MsgNoVault, d, f)
    ELSE IF reveal
    THEN IF ~stdoutTTY THEN Done(1, <<>>, MsgRevealNeedsTTY, d, f)
         ELSE LET value == getSecretValue(d, key)
              IN  IF value.kind = "null" THEN Done(1, <<>>, MsgSecretNotFound(key), d, f)
                  ELSE IF value.kind # "value" THEN Done(1, <<>>, value.error, d, f)
                  ELSE Done(0, value.value \o <<"\n">>, <<>>, d, f)
    ELSE LET meta == getSecretMeta(d, key)
         IN  IF meta.kind = "null" THEN Done(1, <<>>, MsgSecretNotFound(key), d, f)
             ELSE IF meta.kind # "value" THEN Done(1, <<>>, meta.error, d, f)
             ELSE Done(0,
                       <<"K","e","y",":"," "," "," "," "," "," ">> \o key \o <<"\n">>
                       \o (IF meta.value.desc # Null /\ meta.value.desc # <<>>
                           THEN <<"D","e","s","c",":"," "," "," "," "," ">> \o meta.value.desc \o <<"\n">> ELSE <<>>)
                       \o <<"S","e","t"," ","a","t",":"," "," "," ">> \o meta.value.createdAt \o <<"\n">>
                       \o <<"L","e","n","g","t","h",":"," "," "," ">> \o Decimal(meta.value.length) \o <<" ","c","h","a","r","s","\n">>,
                       <<>>, d, f)

\* the `rm` command; answer is the line typed at the confirmation
rm(d, f, key, tty, answer) ==
    IF ~requireTTY(tty) THEN Done(1, <<>>, MsgRequireTTY(<<"a","g","e","n","t","-","v","a","u","l","t"," ","r","m">>), d, f)
    ELSE IF ~vaultExists(d) THEN Done(1, <<>>, MsgNoVault, d, f)
    ELSE IF ~hasSecret(d, key) THEN Done(1, <<>>, MsgSecretNotFound(key), d, f)
    ELSE LET asked == PromptText(<<"R","e","m","o","v","e"," ","\"">> \o key \o <<"\"","?">>, FALSE)
         IN  IF ~confirm(answer, FALSE) THEN Done(0, <<"C","a","n","c","e","l","l","e","d","\n">>, asked, d, f)
             ELSE Done(0, <<"R","e","m","o","v","e","d"," ","\"">> \o key \o <<"\"","\n">>, asked, removeSecret(d, key).d, f)

\* the `init` command with the master key the generator returns
init(d, f, tty, masterKey) ==
    IF ~requireTTY(tty) THEN Done(1, <<>>, MsgRequireTTY(<<"a","g","e","n","t","-","v","a","u","l","t"," ","i","n","i","t">>), d, f)
    ELSE IF vaultExists(d)
    THEN Done(0, <<"V","a","u","l","t"," ","a","l","r","e","a","d","y"," ","e","x","i","s","t","s"," ","a","t"," ","~","/",".","a","g","e","n","t","-","v","a","u","l","t","/","\n">>, <<>>, d, f)
    ELSE Done(0, <<"I","n","i","t","i","a","l","i","z","e","d"," ","v","a","u","l","t"," ","a","t"," ","~","/",".","a","g","e","n","t","-","v","a","u","l","t","/","\n">>, <<>>, initVault(d, masterKey), f)

\* the environment variable --from-env names
EnvVar == <<"S","E","C","R","E","T">>

MsgInvalidKey ==
    <<"I","n","v","a","l","i","d"," ","k","e","y"," ","f","o","r","m","a","t","."," ","U","s","e"," ","l","o","w","e","r","c","a","s","e"," ","a","l","p","h","a","n","u","m","e","r","i","c"," ","+"," ","h","y","p","h","e","n","s"," ","(","e",".","g","."," ","m","y","-","a","p","i","-","k","e","y",")","\n">>

MsgOverwriting(key, length) ==
    <<"O","v","e","r","w","r","i","t","i","n","g"," ","\"">> \o key \o <<"\""," ","(","w","a","s"," ">> \o Decimal(length) \o <<" ","c","h","a","r","s",")","\n">>

MsgInitialized == <<"I","n","i","t","i","a","l","i","z","e","d"," ","v","a","u","l","t"," ","a","t"," ","~","/",".","a","g","e","n","t","-","v","a","u","l","t","/","\n">>

\* what promptSecret writes to stderr for a typed value: the prompt, a mark
\* per character, a line feed
PromptSecretText(key, typed) ==
    <<"E","n","t","e","r"," ","v","a","l","u","e"," ","f","o","r"," ","\"">> \o key \o <<"\"",":"," ">> \o [i \in 1..Len(typed) |-> "*"] \o <<"\n">>

\* the end of `set` once the value is known: auto-init, setSecret, the message
SetStore(d, f, key, value, desc, fromEnv, stderr, masterKey, iv, now) ==
    LET d1   == IF ~vaultExists(d) THEN initVault(d, masterKey) ELSE d
        err1 == IF ~vaultExists(d) THEN stderr \o MsgInitialized ELSE stderr
        d2   == setSecret(d1, key, value, desc, iv, IsoString(now))
    IN  IF d2.kind # "value" THEN Done(1, <<>>, err1 \o d2.error, d1, f)
        ELSE Done(0,
                  <<"S","a","v","e","d"," ","\"">> \o key \o <<"\"">>
                  \o (IF fromEnv THEN <<" ","(","f","r","o","m"," ","$">> \o EnvVar \o <<")">> ELSE <<>>) \o <<"\n">>,
                  err1, d2.value, f)

\* the `set` command.  desc is --desc (Null when absent), fromEnv and stdin
\* the two flags; input is the value of the environment variable (empty
\* when unset), what stdin holds, or what the user types at the prompt
\* (Null for Ctrl+C); answer is the line typed at the confirmation.
set(d, f, key, desc, fromEnv, stdin, input, tty, answer, masterKey, iv, now) ==
    IF ~ValidName(key) THEN Done(1, <<>>, MsgInvalidKey, d, f)
    ELSE
    LET alreadyExists == vaultExists(d) /\ hasSecret(d, key)
        existingMeta  == IF alreadyExists THEN getSecretMeta(d, key) ELSE [kind |-> "null"]
        warn          == IF alreadyExists
                         THEN MsgOverwriting(key, existingMeta.value.length) ELSE <<>>
    IN  IF existingMeta.kind \notin {"value", "null"}
        THEN Done(1, <<>>, existingMeta.error, d, f)
        ELSE IF fromEnv
        THEN IF input = Null \/ input = <<>>
             THEN Done(1, <<>>,
                       <<"E","n","v","i","r","o","n","m","e","n","t"," ","v","a","r","i","a","b","l","e"," ","$">> \o EnvVar \o <<" ","i","s"," ","n","o","t"," ","s","e","t"," ","o","r"," ","e","m","p","t","y","\n">>, d, f)
             ELSE SetStore(d, f, key, input, desc, TRUE, warn, masterKey, iv, now)
        ELSE IF stdin
        THEN IF input = Null \/ Trim(input) = <<>>
             THEN Done(1, <<>>, <<"N","o"," ","i","n","p","u","t"," ","r","e","c","e","i","v","e","d"," ","f","r","o","m"," ","s","t","d","i","n","\n">>, d, f)
             ELSE SetStore(d, f, key, Trim(input), desc, FALSE, warn, masterKey, iv, now)
        ELSE IF ~requireTTY(tty)
        THEN Done(1, <<>>, MsgRequireTTY(<<"a","g","e","n","t","-","v","a","u","l","t"," ","s","e","t">>), d, f)
        ELSE
        LET shown == IF desc # Null /\ desc # <<>> THEN desc \o <<"\n">> ELSE <<>>
            asked == IF alreadyExists
                     THEN shown
                          \o <<"\"">> \o key \o <<"\"">>
                          \o (IF existingMeta.value.desc # Null /\ existingMeta.value.desc # <<>>
                              THEN <<" ","(">> \o existingMeta.value.desc \o <<")">> ELSE <<>>)
                          \o <<" ","a","l","r","e","a","d","y"," ","e","x","i","s","t","s"," ","(">> \o Decimal(existingMeta.value.length)
                          \o <<" ","c","h","a","r","s",","," ","s","e","t"," ">> \o existingMeta.value.createdAt \o <<")","\n">>
                          \o PromptText(<<"O","v","e","r","w","r","i","t","e","?">>, FALSE)
                     ELSE shown
        IN  IF alreadyExists /\ ~confirm(answer, FALSE)
            THEN Done(0, <<"C","a","n","c","e","l","l","e","d","\n">>, asked, d, f)
            ELSE IF input = Null
            THEN Done(1, <<>>,
                      asked \o <<"E","n","t","e","r"," ","v","a","l","u","e"," ","f","o","r"," ","\"">> \o key \o <<"\"",":"," ">> \o <<"\n","C","a","n","c","e","l","l","e","d","\n">>, d, f)
            ELSE IF input = <<>>
            THEN Done(1, <<>>,
                      asked \o PromptSecretText(key, input) \o <<"E","m","p","t","y"," ","v","a","l","u","e",","," ","n","o","t","h","i","n","g"," ","s","a","v","e","d","\n">>,
                      d, f)
            ELSE SetStore(d, f, key, input, desc, FALSE,
                          asked \o PromptSecretText(key, input), masterKey, iv, now)

\* the values `import` skips as common
COMMON_VALUES == {
    <<"t","r","u","e">>, <<"f","a","l","s","e">>, <<"n","u","l","l">>, <<"u","n","d","e","f","i","n","e","d">>, <<"l","o","c","a","l","h","o","s","t">>, <<"0",".","0",".","0",".","0">>,
    <<"1","2","7",".","0",".","0",".","1">>, <<"d","e","v","e","l","o","p","m","e","n","t">>, <<"p","r","o","d","u","c","t","i","o","n">>, <<"s","t","a","g","i","n","g">>, <<"t","e","s","t">>}

\* /^([A-Za-z_][A-Za-z0-9_]*)\s*=\s*(.+)$/ on t: group 1 (when EnvMatch gives group 2)
EnvKey(t) == Slice(t, 1, RunEnd(t, Alnum \cup {"_"}, 2) - 1)

\* rawValue.replace(/^["']|["']$/g, "").trim()
ImportValue(rawValue) ==
    LET first == IF Len(rawValue) >= 1 /\ rawValue[1] \in QuoteChar THEN 2 ELSE 1
        last  == IF Len(rawValue) >= first /\ rawValue[Len(rawValue)] \in QuoteChar
                 THEN Len(rawValue) - 1 ELSE Len(rawValue)
    IN  Trim(Slice(rawValue, first, last))

\* envKey.toLowerCase().replace(/_/g, "-")
VaultKeyOf(envKey) ==
    LET lower == ToLowerCase(envKey)
    IN  [i \in 1..Len(lower) |-> IF lower[i] = "_" THEN "-" ELSE lower[i]]

\* the candidate `import` makes of one line, or none
ImportCandidates(line, minLength) ==
    LET trimmed == Trim(line)
        match   == EnvMatch(trimmed)
        value   == ImportValue(match)
    IN  IF trimmed = <<>> \/ StartsWithAt(trimmed, <<"#">>, 1) THEN <<>>
        ELSE IF match = Null THEN <<>>
        ELSE << [envKey   |-> EnvKey(trimmed),
                 vaultKey |-> VaultKeyOf(EnvKey(trimmed)),
                 value    |-> value,
                 skip     |-> IF Len(value) < minLength
                              THEN <<"t","o","o"," ","s","h","o","r","t"," ","(">> \o Decimal(Len(value)) \o <<" ","c","h","a","r","s",")">>
                              ELSE IF ToLowerCase(value) \in COMMON_VALUES
                              THEN <<"c","o","m","m","o","n"," ","v","a","l","u","e">>
                              ELSE Null] >>

RECURSIVE AllCandidates(_, _, _)
\* the loop of `import` over the lines, from line i on
AllCandidates(lines, minLength, i) ==
    IF i > Len(lines) THEN <<>>
    ELSE ImportCandidates(lines[i], minLength) \o AllCandidates(lines, minLength, i + 1)

\* s.padEnd(width)
PadEnd(s, width) == s \o [i \in 1..(IF width > Len(s) THEN width - Len(s) ELSE 0) |-> " "]

RECURSIVE PreviewLines(_, _, _, _)
\* the preview of `import`: one line per candidate of list cs
PreviewLines(d, cs, width, i) ==
    IF i > Len(cs) THEN <<>>
    ELSE <<" "," ">> \o PadEnd(cs[i].envKey, width) \o <<" ","-",">"," ">>
         \o (IF cs[i].skip # Null THEN <<"(","s","k","i","p",":"," ">> \o cs[i].skip \o <<")">>
             ELSE cs[i].vaultKey
                  \o (IF vaultExists(d) /\ hasSecret(d, cs[i].vaultKey)
                      THEN <<" ","(","o","v","e","r","w","r","i","t","e",")">> ELSE <<>>))
         \o <<"\n">> \o PreviewLines(d, cs, width, i + 1)

RECURSIVE ImportAll(_, _, _, _, _)
\* for (const c of toImport) setSecret(c.vaultKey, c.value), from candidate i
\* on, with the nonce each call draws: the disk after, or the process exits
ImportAll(d, toImport, ivs, now, i) ==
    IF i > Len(toImport) THEN [kind |-> "value", value |-> d]
    ELSE LET next == setSecret(d, toImport[i].vaultKey, toImport[i].value, Null,
                               ivs[i], IsoString(now))
         IN  IF next.kind # "value" THEN [kind |-> "exit", error |-> next.error, value |-> d]
             ELSE ImportAll(next.value, toImport, ivs, now, i + 1)

Plural(n) == IF n # 1 THEN <<"s">> ELSE <<>>

\* the `import` command; minLength is parseInt of --min-length
import(d, f, minLength, tty, answer, masterKey, ivs, now) ==
    IF ~requireTTY(tty) THEN Done(1, <<>>, MsgRequireTTY(<<"a","g","e","n","t","-","v","a","u","l","t"," ","i","m","p","o","r","t">>), d, f)
    ELSE IF f = NoFile THEN Done(1, <<>>, MsgFileNotFound, d, f)
    ELSE
    LET candidates == AllCandidates(SplitLines(f), minLength, 1)
        toImport   == SelectSeq(candidates, LAMBDA c : c.skip = Null)
        toSkip     == SelectSeq(candidates, LAMBDA c : c.skip # Null)
        width      == CHOOSE w \in {Len(candidates[i].envKey) : i \in 1..Len(candidates)} :
                          \A i \in 1..Len(candidates) : Len(candidates[i].envKey) <= w
        preview    == <<"F","o","u","n","d"," ">> \o Decimal(Len(candidates)) \o <<" ","e","n","t","r","i","e","s",":","\n","\n">>
                      \o PreviewLines(d, toImport, width, 1)
                      \o PreviewLines(d, toSkip, width, 1)
        asked      == PromptText(<<"I","m","p","o","r","t"," ">> \o Decimal(Len(toImport)) \o <<" ","s","e","c","r","e","t">>
                                 \o Plural(Len(toImport)) \o <<"?">>, TRUE)
        d1         == IF ~vaultExists(d) THEN initVault(d, masterKey) ELSE d
        err1       == IF ~vaultExists(d) THEN asked \o MsgInitialized ELSE asked
        d2         == ImportAll(d1, toImport, ivs, now, 1)
    IN  IF Len(candidates) = 0 THEN Done(0, <<"N","o"," ","e","n","t","r","i","e","s"," ","f","o","u","n","d"," ","i","n"," ","f","i","l","e","\n">>, <<>>, d, f)
        ELSE IF Len(toImport) = 0
        THEN Done(0, preview \o <<"\n","N","o","t","h","i","n","g"," ","t","o"," ","i","m","p","o","r","t"," ","(","a","l","l"," ","e","n","t","r","i","e","s"," ","s","k","i","p","p","e","d",")","\n">>, <<>>, d, f)
        ELSE IF ~confirm(answer, TRUE)
        THEN Done(0, preview \o <<"\n">> \o <<"C","a","n","c","e","l","l","e","d","\n">>, asked, d, f)
        ELSE IF d2.kind # "value"
        THEN Done(1, preview \o <<"\n">>, err1 \o d2.error, d2.value, f)
        ELSE Done(0,
                  preview \o <<"\n">> \o <<"I","m","p","o","r","t","e","d"," ">> \o Decimal(Len(toImport)) \o <<" ","s","e","c","r","e","t">>
                  \o Plural(Len(toImport)) \o <<"\n">>,
                  err1, d2.value, f)

RECURSIVE VaultedOnLine(_, _, _, _)
\* the inner loop of `scan`: the known values line i includes, in Map order
VaultedOnLine(line, i, knownValues, j) ==
    IF j > Len(knownValues) THEN <<>>
    ELSE (IF Includes(line, knownValues[j][1])
          THEN << [line |-> i, key |-> knownValues[j][2], type |-> <<"v","a","u","l","t","e","d">>] >>
          ELSE <<>>)
         \o VaultedOnLine(line, i, knownValues, j + 1)

RECURSIVE Vaulted(_, _, _)
\* the first loop of `scan` over the lines of the file
Vaulted(lines, knownValues, i) ==
    IF i > Len(lines) THEN <<>>
    ELSE VaultedOnLine(lines[i], i, knownValues, 1) \o Vaulted(lines, knownValues, i + 1)

RECURSIVE SuspectsOnLine(_, _, _)
\* line.match(/<agent-vault:UNVAULTED:sha256:([a-f0-9]{8})>/g), each match
\* with "<agent-vault:" and ">" removed, from position i on
SuspectsOnLine(line, n, i) ==
    LET p == NextUnvaulted(line, i)
        e == UnvaultedEndAt(line, p)
    IN  IF p = 0 THEN <<>>
        ELSE << [line |-> n,
                 key  |-> Slice(line, p + Len(PlaceholderOpen), e - 1),
                 type |-> <<"u","n","v","a","u","l","t","e","d","-","s","u","s","p","e","c","t">>] >>
             \o SuspectsOnLine(line, n, e + 1)

RECURSIVE Suspects(_, _)
\* the second loop of `scan` over the lines of the redacted text
Suspects(redactedLines, i) ==
    IF i > Len(redactedLines) THEN <<>>
    ELSE SuspectsOnLine(redactedLines[i], i, 1) \o Suspects(redactedLines, i + 1)

RECURSIVE JsonScanResults(_, _)
\* the elements of an array of ScanResult in JSON.stringify(..., null, 2)
JsonScanResults(results, i) ==
    IF i > Len(results) THEN <<>>
    ELSE <<" "," "," "," ","{","\n"," "," "," "," "," "," ","\"","l","i","n","e","\"",":"," ">> \o Decimal(results[i].line)
         \o <<",","\n"," "," "," "," "," "," ","\"","k","e","y","\"",":"," ">> \o JsonString(results[i].key)
         \o <<",","\n"," "," "," "," "," "," ","\"","t","y","p","e","\"",":"," ">> \o JsonString(results[i].type)
         \o <<"\n"," "," "," "," ","}">> \o (IF i < Len(results) THEN <<",">> ELSE <<>>) \o <<"\n">>
         \o JsonScanResults(results, i + 1)

\* one array member of the JSON report of `scan`
JsonScanArray(name, results) ==
    <<" "," ">> \o JsonString(name) \o <<":"," ">>
    \o (IF Len(results) = 0 THEN <<"[","]">>
        ELSE <<"[","\n">> \o JsonScanResults(results, 1) \o <<" "," ","]">>)

RECURSIVE VaultedLines(_, _)
VaultedLines(results, i) ==
    IF i > Len(results) THEN <<>>
    ELSE <<" "," ","l","i","n","e"," ">> \o Decimal(results[i].line) \o <<":"," ","m","a","t","c","h","e","s"," ","\"">> \o results[i].key
         \o <<"\"","\n">> \o VaultedLines(results, i + 1)

RECURSIVE SuspectLines(_, _)
SuspectLines(results, i) ==
    IF i > Len(results) THEN <<>>
    ELSE <<" "," ","l","i","n","e"," ">> \o Decimal(results[i].line) \o <<":"," ">> \o results[i].key \o <<"\n">>
         \o <<" "," ","-",">"," ","R","u","n",":"," ","a","g","e","n","t","-","v","a","u","l","t"," ","s","e","t"," ","<","k","e","y","-","n","a","m","e",">","\n">> \o SuspectLines(results, i + 1)

\* the `scan` command
scan(d, f, json, tty) ==
    IF ~requireTTY(tty) THEN Done(1, <<>>, MsgRequireTTY(<<"a","g","e","n","t","-","v","a","u","l","t"," ","s","c","a","n">>), d, f)
    ELSE IF f = NoFile THEN Done(1, <<>>, MsgFileNotFound, d, f)
    ELSE
    LET knownValues == IF vaultExists(d) THEN getAllSecretValues(d)
                       ELSE [kind |-> "value", value |-> <<>>]
        vaulted     == Vaulted(SplitLines(f), knownValues.value, 1)
        suspects    == Suspects(SplitLines(redact(f, knownValues.value)), 1)
    IN  IF knownValues.kind # "value" THEN Done(1, <<>>, knownValues.error, d, f)
        ELSE IF json
        THEN Done(0,
                  <<"{","\n"," "," ","\"","f","i","l","e","\"",":"," ">> \o JsonString(FileName) \o <<",","\n">>
                  \o JsonScanArray(<<"v","a","u","l","t","e","d">>, vaulted) \o <<",","\n">>
                  \o JsonScanArray(<<"u","n","v","a","u","l","t","e","d","_","s","u","s","p","e","c","t","s">>, suspects) \o <<"\n","}","\n">>,
                  <<>>, d, f)
        ELSE Done(0,
                  <<"V","a","u","l","t","e","d"," ","(">> \o Decimal(Len(vaulted)) \o <<")",":","\n">>
                  \o (IF Len(vaulted) = 0 THEN <<" "," ","(","n","o","n","e",")","\n">> ELSE VaultedLines(vaulted, 1))
                  \o <<"U","n","v","a","u","l","t","e","d"," ","s","u","s","p","e","c","t","s"," ","(">> \o Decimal(Len(suspects)) \o <<")",":","\n">>
                  \o (IF Len(suspects) = 0 THEN <<" "," ","(","n","o","n","e",")","\n">> ELSE SuspectLines(suspects, 1)),
                  <<>>, d, f)

-----------------------------------------------------------------------------
(* The command line as a state machine.  A command runs as one step that   *)
(* leaves its observation in out; Return is the process having exited and  *)
(* the shell being ready for the next command.                             *)

MaxEntries == 2

\* the values and names the users and the agent of the model work with
ShortValue == <<"h","u","n","t","e","r","2">>

LongValue == <<"a","b","c","d","e","f","g","h","1","2","3","4","5","6","7","8","9","0">>

UnvaultedValue == <<"a","B","3","d","E","5","g","H","7","j","K","9","m","N">>

Pin == <<"p","i","n">>

Descs == {Null, <<"d","b">>}

\* key arguments of `set`: a name of the grammar and one outside it
SetNames == {Pin, <<"-","b","a","d">>}

\* key arguments of `get`, `rm` and `has`
KeyArgs == {Pin, <<"-","f","o","o">>, <<"c","o","n","s","t","r","u","c","t","o","r">>}

\* the value of the environment variable, the line piped to stdin, or what
\* the user types (Null: unset, nothing, Ctrl+C)
SetInputs == {Null, <<>>, ShortValue, LongValue}

\* lines typed at a confirmation
Answers == {<<"y">>, <<"n">>}

\* contents the user gives the work file
FileContents == {
    <<"p","w","=","h","u","n","t","e","r","2","\n">>,
    <<"K","E","Y","=","a","B","3","d","E","5","g","H","7","j","K","9","m","N">>,
    <<"a","p","i","_","k","e","y",":"," ","a","b","c","d","e","f","g","h","1","2","3","4","5","6","7","8","9","0","\n","p","o","r","t",":"," ","3","0","0","0">>,
    <<"_","F","O","O","=","v","a","l","u","e","1","2","3","4","5","\n","P","I","N","=","1","2","3","4">>}

\* contents the agent hands to `write`
WriteContents == {
    <<"p","w","=","<","a","g","e","n","t","-","v","a","u","l","t",":","p","i","n",">","\n">>,
    <<"a",":"," ","<","a","g","e","n","t","-","v","a","u","l","t",":","p","i","n",">","\n","b",":"," ","<","a","g","e","n","t","-","v","a","u","l","t",":","n","o","p","e",">","\n","c",":"," ","<","a","g","e","n","t","-","v","a","u","l","t",":","k","1",">">>,
    <<"c",":"," ","<","a","g","e","n","t","-","v","a","u","l","t",":","c","o","n","s","t","r","u","c","t","o","r",">">>,
    <<"K","E","Y","=">> \o UnvaultedPlaceholder(sha256Prefix(UnvaultedValue))}

\* values of --min-length
MinLengths == {8}

\* the inputs a step consumes only when the handler asks for them
Drawn(inputs, asked) == IF asked THEN inputs ELSE {CHOOSE x \in inputs : TRUE}

Disk == [key |-> vaultKey, json |-> vaultJson]

Idle == out.cmd = "none"

NoCommand ==
    [cmd |-> "none", tty |-> TRUE, args |-> <<>>, exit |-> 0, stdout |-> <<>>,
     stderr |-> <<>>, before |-> <<>>]

\* the process ends with outcome r: the disk and the observation it leaves
Finish(cmd, tty, args, r) ==
    /\ Len(r.d.json.secrets) <= MaxEntries
    /\ vaultKey' = r.d.key
    /\ vaultJson' = r.d.json
    /\ file' = r.file
    /\ out' = [cmd |-> cmd, tty |-> tty, args |-> args, exit |-> r.exit,
               stdout |-> r.stdout, stderr |-> r.stderr,
               before |-> [key |-> vaultKey, json |-> vaultJson, file |-> file]]
    /\ UNCHANGED engineVars

Init ==
    /\ vaultKey = NoFile
    /\ vaultJson = NoVaultJson
    /\ file = NoFile
    /\ out = NoCommand
    /\ content = <<>>
    /\ secretValues = <<>>
    /\ res = <<>>
    /\ pc = "cli"

\* the user saves the work file from an editor
EditFile ==
    /\ Idle
    /\ \E c \in FileContents : file' = c
    /\ UNCHANGED <<vaultKey, vaultJson, out, engineVars>>

Read ==
    /\ Idle
    /\ \E tty \in BOOLEAN : Finish("read", tty, <<>>, read(Disk, file))

Write ==
    /\ Idle
    /\ \E tty \in BOOLEAN, flag \in WriteContents \cup {Null} :
       \E piped \in Drawn(WriteContents, flag = Null /\ ~tty) :
           Finish("write", tty, [flag |-> flag, piped |-> piped],
                  write(Disk, file, flag, piped, tty))

Has ==
    /\ Idle
    /\ \E tty \in BOOLEAN, json \in BOOLEAN,
          keys \in {<<Pin>>, <<<<"c","o","n","s","t","r","u","c","t","o","r">>>>, <<Pin, <<"-","f","o","o">>>>} :
           Finish("has", tty, [keys |-> keys, json |-> json], has(Disk, file, keys, json))

List ==
    /\ Idle
    /\ \E tty \in BOOLEAN, json \in BOOLEAN :
           Finish("list", tty, [json |-> json], list(Disk, file, json))

Set ==
    /\ Idle
    /\ \E tty \in BOOLEAN, key \in SetNames, desc \in Descs,
          fromEnv \in BOOLEAN, stdin \in BOOLEAN, input \in SetInputs :
       \E answer \in Drawn(Answers, tty /\ ~fromEnv /\ ~stdin
                                    /\ vaultExists(Disk) /\ hasSecret(Disk, key)),
          masterKey \in Drawn(MasterKeys, ~vaultExists(Disk)),
          iv \in Nonces, now \in Times :
           Finish("set", tty,
                  [key |-> key, desc |-> desc, fromEnv |-> fromEnv, stdin |-> stdin],
                  set(Disk, file, key, desc, fromEnv, stdin,
                      IF stdin /\ ~fromEnv /\ input # Null THEN input \o <<"\n">> ELSE input,
                      tty, answer, masterKey, iv, now))

Get ==
    /\ Idle
    /\ \E tty \in BOOLEAN, key \in KeyArgs, reveal \in BOOLEAN :
       \E stdoutTTY \in Drawn(BOOLEAN, tty /\ reveal) :
           Finish("get", tty, [key |-> key, reveal |-> reveal],
                  get(Disk, file, key, reveal, tty, stdoutTTY))

Rm ==
    /\ Idle
    /\ \E tty \in BOOLEAN, key \in KeyArgs :
       \E answer \in Drawn(Answers, tty /\ vaultExists(Disk) /\ hasSecret(Disk, key)) :
           Finish("rm", tty, [key |-> key], rm(Disk, file, key, tty, answer))

Import ==
    /\ Idle
    /\ \E tty \in BOOLEAN, minLength \in MinLengths :
       \E answer \in Drawn(Answers, tty /\ file # NoFile),
          masterKey \in Drawn(MasterKeys, tty /\ ~vaultExists(Disk)),
          ivs \in [1..MaxEntries -> Nonces], now \in Times :
           Finish("import", tty, [minLength |-> minLength],
                  import(Disk, file, minLength, tty, answer, masterKey, ivs, now))

InitCmd ==
    /\ Idle
    /\ \E tty \in BOOLEAN :
       \E masterKey \in Drawn(MasterKeys, tty /\ ~vaultExists(Disk)) :
           Finish("init", tty, <<>>, init(Disk, file, tty, masterKey))

Scan ==
    /\ Idle
    /\ \E tty \in BOOLEAN, json \in BOOLEAN :
           Finish("scan", tty, [json |-> json], scan(Disk, file, json, tty))

\* the process has exited; the shell prompts again
Return ==
    /\ ~Idle
    /\ out' = NoCommand
    /\ UNCHANGED <<vaultKey, vaultJson, file, engineVars>>

Next ==
    \/ EditFile \/ Read \/ Write \/ Has \/ List \/ Set \/ Get \/ Rm \/ Import
    \/ InitCmd \/ Scan \/ Return

Spec == Init /\ [][Next]_vars

-----------------------------------------------------------------------------
(* The engine on its own: redact and restore applied to a content and a    *)
(* Map of known values, as a caller of redact.ts applies them.             *)

MaxLines == 2

MaxMapEntries == 2

\* the lines the contents are made of
EngineLines == {
    <<"a","p","i","_","k","e","y",":"," ","a","b","c","d","e","f","g","h","1","2","3","4","5","6","7","8","9","0">>,
    <<"p","o","r","t",":"," ","3","0","0","0">>,
    <<"K","E","Y","=","a","B","3","d","E","5","g","H","7","j","K","9","m","N">>,
    <<"\"","a","\"",":"," ","\"","a","B","3","d","E","5","g","H","7","j","K","9","m","N","\"",","," ","\"","b","\"",":"," ","\"","a","B","3","d","E","5","g","H","7","j","K","9","m","N","\"">>,
    <<"t","o","k",":"," ","<","a","g","e","n","t","-","v","a","u","l","t",":","k","1",">">>,
    <<"x"," ","a","g","e","n","t","-","v","a","u","l","t">>,
    <<"p","w","=","h","u","n","t","e","r","2">>,
    <<"<","a","g","e","n","t","-","v","a","u","l","t",":","K","1",">","<","a","g","e","n","t","-","v","a","u","l","t",":","m","y","_","k","e","y",">","<","a","g","e","n","t","-","v","a","u","l","t",":","z","z",">","<","a","g","e","n","t","-","v","a","u","l","t",":","U","N","V","A","U","L","T","E","D",":","s","h","a","2","5","6",":","0","a","1","b","2","c","3","d",">">>,
    <<"Q","=","\"","a","B","3","d","E","5","g","H","7","j","K","9","m","N","\"",",">>}

\* the contents: up to MaxLines lines joined by line feeds
EngineContents ==
    {JoinLines(ls) : ls \in UNION {[1..n -> EngineLines] : n \in 1..MaxLines}}

\* the plaintext values a Map may hold
EngineValues == {LongValue, <<"a","g","e","n","t","-","v","a","u","l","t">>, ShortValue, UnvaultedValue,
                 <<"a","b","c","d","e","f","g","h">>, <<"e","f","g","h","1","2","3","4">>,
                 <<"x"," ","a","g","e","n","t","-","v","a","u","l","t">>}

\* the names, by position in the Map
EngineNames == <<<<"k","1">>, <<"k","2">>, <<"k","3">>, <<"k","4">>>>

\* the Maps value -> name: up to MaxMapEntries distinct values, in every order
EngineMaps ==
    {[i \in DOMAIN vs |-> <<vs[i], EngineNames[i]>>] :
        vs \in {w \in UNION {[1..n -> EngineValues] : n \in 0..MaxMapEntries} :
                   \A i, j \in DOMAIN w : i # j => w[i] # w[j]}}

\* the getSecret callback of a store holding exactly the entries of the Map m
LookupIn(m, key) ==
    IF \E i \in 1..Len(m) : m[i][2] = key
    THEN [kind |-> "value", value |-> m[CHOOSE i \in 1..Len(m) : m[i][2] = key][1]]
    ELSE [kind |-> "null"]

InitEngine ==
    /\ vaultKey = NoFile
    /\ vaultJson = NoVaultJson
    /\ file = NoFile
    /\ out = NoCommand
    /\ content \in EngineContents
    /\ secretValues \in EngineMaps
    /\ res = [redacted |-> <<>>, restored |-> <<>>, existing |-> <<>>,
              unvaulted |-> <<>>, again |-> <<>>]
    /\ pc = "start"

\* redact(content, secretValues)
Redact ==
    /\ pc = "start"
    /\ res' = [res EXCEPT !.redacted = redact(content, secretValues)]
    /\ pc' = "redacted"
    /\ UNCHANGED <<cliVars, content, secretValues>>

\* restore(redacted, getSecret) on what redact returned
Restore ==
    /\ pc = "redacted"
    /\ res' = [res EXCEPT !.restored =
                   restore(res.redacted,
                           [key \in Range(PlaceholderNamesFrom(res.redacted, 1)) |->
                               LookupIn(secretValues, key)])]
    /\ pc' = "restored"
    /\ UNCHANGED <<cliVars, content, secretValues>>

\* the existing files restoreUnvaulted may be given: the content that was
\* redacted, or a file of one line
ExistingContents == {JoinLines(<<l>>) : l \in EngineLines}

\* restoreUnvaulted(redacted, existingContent) on what redact returned
RestoreUnvaulted ==
    /\ pc = "redacted"
    /\ \E existing \in {content} \cup ExistingContents :
          res' = [res EXCEPT !.existing = existing,
                             !.unvaulted = restoreUnvaulted(res.redacted, existing)]
    /\ pc' = "unvaulted"
    /\ UNCHANGED <<cliVars, content, secretValues>>

\* redact(redacted, secretValues): a second redaction of what redact returned
RedactAgain ==
    /\ pc = "redacted"
    /\ res' = [res EXCEPT !.again = redact(res.redacted, secretValues)]
    /\ pc' = "again"
    /\ UNCHANGED <<cliVars, content, secretValues>>

NextEngine == Redact \/ Restore \/ RestoreUnvaulted \/ RedactAgain

SpecEngine == InitEngine /\ [][NextEngine]_vars

-----------------------------------------------------------------------------
(* The store on its own: the functions vault.ts exports, called one after  *)
(* the other on a vault directory that exists, as its unit tests call      *)
(* them, with process.exit observed rather than ending the caller.  In     *)
(* between, vault.key can be unlinked and a stored segment of vault.json   *)
(* altered by hand.  out holds the last call, its outcome and the disk     *)
(* before it.                                                              *)

MaxStoreKeys == 2

\* randomBytes(32).toString("hex"): the master keys initVault may draw here
StoreKeys == {<<"m", HexDigits[k]>> : k \in 1..MaxStoreKeys}

\* key arguments: a name of the grammar, a name of the grammar that
\* Object.prototype defines, and a name outside the grammar that it defines
StoreNames == {<<"k","1">>, <<"c","o","n","s","t","r","u","c","t","o","r">>, <<"_","_","p","r","o","t","o","_","_">>}

\* value arguments: a well-formed string and a string holding a lone surrogate
StoreValues == {ShortValue, <<"p","w",LoneSurrogate>>}

\* the functions vault.ts exports
StoreOps == {"initVault", "setSecret", "getSecretValue", "getSecretMeta",
             "hasSecret", "listSecrets", "removeSecret", "getAllSecretValues"}

\* a function returned value
Returns(value) == [kind |-> "value", value |-> value]

\* the call returned, exited or threw with outcome result, leaving the disk d
Call(cmd, args, result, d) ==
    /\ Len(d.json.secrets) <= MaxEntries
    /\ vaultKey' = d.key
    /\ vaultJson' = d.json
    /\ out' = [cmd |-> cmd, args |-> args, result |-> result,
               before |-> [key |-> vaultKey, json |-> vaultJson, file |-> file]]
    /\ UNCHANGED <<file, engineVars>>

InitStore ==
    /\ vaultKey = NoFile
    /\ vaultJson = NoVaultJson
    /\ file = NoFile
    /\ out = [cmd |-> "none", args |-> <<>>, result |-> Returns(<<>>),
              before |-> [key |-> NoFile, json |-> NoVaultJson, file |-> NoFile]]
    /\ content = <<>>
    /\ secretValues = <<>>
    /\ res = <<>>
    /\ pc = "store"

CallInitVault ==
    \E masterKey \in Drawn(StoreKeys, ~vaultExists(Disk)) :
        Call("initVault", <<>>, Returns(<<>>), initVault(Disk, masterKey))

CallSetSecret ==
    \E key \in StoreNames, value \in StoreValues, iv \in Nonces, now \in Times :
        LET r == setSecret(Disk, key, value, Null, iv, now)
        IN  Call("setSecret", [key |-> key, value |-> value],
                 IF r.kind = "value" THEN Returns(<<>>) ELSE r,
                 IF r.kind = "value" THEN r.value ELSE Disk)

CallGetSecretValue ==
    \E key \in StoreNames :
        Call("getSecretValue", [key |-> key], getSecretValue(Disk, key), Disk)

CallGetSecretMeta ==
    \E key \in StoreNames :
        Call("getSecretMeta", [key |-> key], getSecretMeta(Disk, key), Disk)

CallHasSecret ==
    \E key \in StoreNames :
        Call("hasSecret", [key |-> key], Returns(hasSecret(Disk, key)), Disk)

CallListSecrets ==
    Call("listSecrets", <<>>, Returns(listSecrets(Disk)), Disk)

CallRemoveSecret ==
    \E key \in StoreNames :
        Call("removeSecret", [key |-> key],
             Returns(removeSecret(Disk, key).removed), removeSecret(Disk, key).d)

CallGetAllSecretValues ==
    Call("getAllSecretValues", <<>>, getAllSecretValues(Disk), Disk)

\* unlinkSync of vault.key
UnlinkKey ==
    /\ vaultKey # NoFile
    /\ vaultKey' = NoFile
    /\ out' = [cmd |-> "unlink", args |-> <<>>, result |-> Returns(<<>>),
               before |-> [key |-> vaultKey, json |-> vaultJson, file |-> file]]
    /\ UNCHANGED <<vaultJson, file, engineVars>>

\* the segments of a stored "iv:tag:ciphertext"
Segments3 == {"iv", "tag", "ct"}

\* some segment of the stored value packed is not the text encrypt wrote
Altered(packed) == \E seg \in Segments3 : packed[seg].text # "hex"

\* one segment of one stored value is altered by hand in vault.json (an
\* empty ciphertext has no digit to alter)
Tamper ==
    /\ vaultJson.exists
    /\ \A j \in 1..Len(vaultJson.secrets) : ~Altered(vaultJson.secrets[j][2].value)
    /\ \E i \in 1..Len(vaultJson.secrets), seg \in Segments3, how \in Alterations :
        /\ seg = "ct" => vaultJson.secrets[i][2].value.ct.of.plaintext # <<>>
        /\ vaultJson' = [vaultJson EXCEPT !.secrets[i][2].value[seg].text = how]
        /\ out' = [cmd |-> "tamper",
                   args |-> [key |-> vaultJson.secrets[i][1], segment |-> seg, how |-> how],
                   result |-> Returns(<<>>),
                   before |-> [key |-> vaultKey, json |-> vaultJson, file |-> file]]
    /\ UNCHANGED <<vaultKey, file, engineVars>>

NextStore ==
    \/ CallInitVault \/ CallSetSecret \/ CallGetSecretValue \/ CallGetSecretMeta
    \/ CallHasSecret \/ CallListSecrets \/ CallRemoveSecret
    \/ CallGetAllSecretValues \/ UnlinkKey \/ Tamper

SpecStore == InitStore /\ [][NextStore]_vars

-----------------------------------------------------------------------------
(* Properties.  The ones over out are read in the state a command leaves.  *)

\* the plaintext values of the vault entries
VaultPlaintexts ==
    {vaultJson.secrets[i][2].value.ct.of.plaintext : i \in 1..Len(vaultJson.secrets)}

\* vault.key and vault.json are what they were before the command
VaultUnchanged == out.before.key = vaultKey /\ out.before.json = vaultJson

\* the work file is what it was before the command
FileUnchanged == out.before.file = file

\* the content `write` was handed, Null when it was handed none
WrittenText ==
    IF out.args.flag # Null THEN out.args.flag
    ELSE IF ~out.tty THEN out.args.piped ELSE Null

\* the disk before the command
DiskBefore == [key |-> out.before.key, json |-> out.before.json]

\* C1: whatever the vault (built by set, import and rm) and the file, the
\* text `read` prints contains no plaintext value of a vault entry,
\* whatever the length of the value.
C1_ReadPrintsNoVaultValue ==
    out.cmd = "read" => \A v \in VaultPlaintexts : ~Includes(out.stdout, v)

\* C2: the string redact(content, M) returns contains no occurrence of a
\* value of M that is at least 8 characters long, once all values have
\* been processed.
C2_RedactLeavesNoKnownValue ==
    pc \in {"redacted", "restored"} =>
        \A i \in 1..Len(secretValues) :
            Len(secretValues[i][1]) >= MIN_REDACT_LENGTH
                => ~Includes(res.redacted, secretValues[i][1])

SensitiveCommands == {"set", "get", "rm", "import", "init", "scan"}

Flagged(line, candidate, knownValues) ==
    /\ ~Includes(line, PlaceholderOpen)
    /\ Len(StripQuotes(candidate)) >= HIGH_ENTROPY_MIN_LENGTH
    /\ ~MapHas(knownValues, StripQuotes(candidate))
    /\ SecretLike(StripQuotes(candidate))

\* C4: when Phase 2 flags a candidate value on a line, the output line no
\* longer contains that value anywhere.
C4_FlaggedValueGoneFromLine ==
    pc \in {"redacted", "restored"} =>
        LET before == SplitLines(RedactKnown(content, secretValues))
            after  == SplitLines(res.redacted)
        IN  \A i \in 1..Len(before) :
                \A k \in 1..Len(extractValueCandidates(before[i])) :
                    Flagged(before[i], extractValueCandidates(before[i])[k], secretValues)
                        => ~Includes(after[i], StripQuotes(extractValueCandidates(before[i])[k]))

\* the engine was run on a Map {v: n} with v at least 8 characters long and a
\* content that contains v, and restore looked the names up in that Map
NamedRoundTripCase ==
    /\ pc = "restored"
    /\ Len(secretValues) = 1
    /\ Len(secretValues[1][1]) >= MIN_REDACT_LENGTH
    /\ Includes(content, secretValues[1][1])

\* C5 as claimed: restore(redact(c, {v:n}), lookup).content = c for every c
\* that contains v, when lookup(n) = v and v is at least 8 characters long.
C5_NamedRoundTrip ==
    NamedRoundTripCase => res.restored.content = content

\* C5 as amended: the same, for every c that contains v, holds no
\* NamedReference to n already, and in which Phase 2 of redact replaces
\* nothing.
C5_NamedRoundTripOfPlainContent ==
    /\ NamedRoundTripCase
    /\ ~Includes(content, Placeholder(secretValues[1][2]))
    /\ res.redacted = RedactKnown(content, secretValues)
    => res.restored.content = content

\* a content with v in it was redacted to something else and restored
C5_Witness ==
    /\ NamedRoundTripCase
    /\ ~Includes(content, Placeholder(secretValues[1][2]))
    /\ res.redacted = RedactKnown(content, secretValues)
    /\ Includes(res.redacted, Placeholder(secretValues[1][2]))
    /\ ~Includes(res.redacted, secretValues[1][1])
    /\ res.restored.restored # <<>>
    /\ res.restored.content = content

\* C6: after a successful `write` of a content c whose NamedReferences all
\* resolve, redacting the file written with the vault's values gives c
\* back: a `read` shows the placeholders written and none of the values.
C6_WriteThenReadRoundTrip ==
    out.cmd = "write" /\ out.exit = 0 =>
        /\ getAllSecretValues(Disk).kind = "value"
        /\ redact(file, getAllSecretValues(Disk).value) = WrittenText

\* the names of the NamedReferences of text that have no entry in the vault
MissingNames(text, d) ==
    {n \in Range(extractPlaceholders(text)) : ~HasOwn(loadVaultData(d), n)}

\* C7: when the content handed to `write` holds a NamedReference whose
\* name has no vault entry, `write` exits with code 1, reports every missing
\* name, and neither creates nor modifies the file.  (Read in a vault that
\* exists: without one the command stops at requireVault.)
C7_WriteReportsEveryMissingName ==
    /\ out.cmd = "write"
    /\ WrittenText # Null
    /\ vaultExists(DiskBefore)
    /\ MissingNames(WrittenText, DiskBefore) # {}
    => /\ out.exit = 1
       /\ \A n \in MissingNames(WrittenText, DiskBefore) : Includes(out.stderr, JsonString(n))
       /\ FileUnchanged

\* the secret-like values of the file before the command, by fingerprint
FingerprintsBefore ==
    IF out.before.file = NoFile THEN <<>>
    ELSE HashLines(<<>>, SplitLines(out.before.file), 1)

\* the fingerprints of the FingerprintReferences of text
FingerprintsIn(text) ==
    {Slice(text, UnvaultedEndAt(text, p) - 8, UnvaultedEndAt(text, p) - 1) :
        p \in {q \in 1..Len(text) : UnvaultedEndAt(text, q) # 0}}

\* C8: when the content handed to `write` holds a FingerprintReference
\* whose fingerprint is that of a secret-like value of the file now at the
\* path, `write` succeeds and the file written holds the original value in
\* place of the reference, with no UNVAULTED token left.
C8_WriteResolvesFingerprint ==
    /\ out.cmd = "write"
    /\ WrittenText # Null
    /\ vaultExists(DiskBefore)
    /\ MissingNames(WrittenText, DiskBefore) = {}
    /\ FingerprintsIn(WrittenText) # {}
    /\ \A h \in FingerprintsIn(WrittenText) : MapHas(FingerprintsBefore, h)
    => /\ out.exit = 0
       /\ NextUnvaulted(file, 1) = 0
       /\ \A h \in FingerprintsIn(WrittenText) : Includes(file, MapGet(FingerprintsBefore, h))

\* C9: when the content handed to `write` holds a FingerprintReference that
\* cannot be resolved (no file at the path, or no value in it with that
\* fingerprint), `write` exits with code 1 and leaves the path unchanged;
\* and no successful `write` leaves a file holding an UNVAULTED token.
C9_WriteNeverPersistsFingerprint ==
    out.cmd = "write" /\ WrittenText # Null =>
        /\ (\E h \in FingerprintsIn(WrittenText) : ~MapHas(FingerprintsBefore, h))
               => out.exit = 1 /\ FileUnchanged
        /\ out.exit = 0 => NextUnvaulted(file, 1) = 0

\* the names of the entries the command stored: those of the vault after it
\* that were not there, with that content, before
StoredNames ==
    {vaultJson.secrets[i][1] : i \in {j \in 1..Len(vaultJson.secrets) :
        \A k \in 1..Len(out.before.json.secrets) :
            out.before.json.secrets[k] # vaultJson.secrets[j]}}

\* C10: the set operation (setSecret, and the `set` command on it) rejects
\* every name outside ^[a-z0-9]([a-z0-9-]*[a-z0-9])?$ before it encrypts or
\* stores anything, leaving the vault unchanged: no command stores an entry
\* under such a name.
C10_SetRejectsInvalidNames ==
    out.cmd \in {"set", "import"} => \A n \in StoredNames : ValidName(n)

-----------------------------------------------------------------------------
(* Properties of the stored names.                                         *)

\* C11: in every vault state the init, set, import and rm commands lead to,
\* every stored secret name matches ^[a-z0-9]([a-z0-9-]*[a-z0-9])?$ (so
\* that every NamedReference redact emits is one restore recognises).
C11_StoredNamesMatchGrammar ==
    \A i \in 1..Len(vaultJson.secrets) : ValidName(vaultJson.secrets[i][1])

-----------------------------------------------------------------------------
(* Properties of the store, read in the state a call leaves.               *)

\* C12: once the vault has been created, no store operation (init, set,
\* get, getMetadata, has, list, remove, allValues) changes the content of
\* vault.key, and a repeated init neither erases nor alters stored entries.
C12_KeyNeverRotatedInitIdempotent ==
    out.cmd \in StoreOps /\ vaultExists(DiskBefore) =>
        /\ vaultKey = out.before.key
        /\ out.cmd = "initVault" => vaultJson = out.before.json

\* initVault was called again on a vault with its key and an entry in it
C12_Witness ==
    /\ out.cmd = "initVault"
    /\ vaultExists(DiskBefore)
    /\ out.before.key # NoFile
    /\ Len(out.before.json.secrets) > 0
    /\ vaultKey = out.before.key
    /\ vaultJson = out.before.json

\* the string has no lone surrogate: it is the UTF-16 form of some text
WellFormed(s) == \A i \in 1..Len(s) : s[i] # LoneSurrogate

\* what the store answers for name n on disk d: the value and the length
\* getSecretMeta reports
Answer(d, n) == [value |-> getSecretValue(d, n), meta |-> getSecretMeta(d, n)]

\* a store operation other than setSecret(n, .) and removeSecret(n) leaves
\* the value the store answers for n as it was
C13_OthersLeaveAnswer ==
    out.cmd \in StoreOps =>
        \A n \in StoreNames :
            /\ ~(out.cmd \in {"setSecret", "removeSecret"} /\ out.args.key = n)
            /\ getSecretValue(DiskBefore, n).kind = "value"
            => Answer(Disk, n) = Answer(DiskBefore, n)

\* C13 as claimed: after setSecret(n, v) completes, getSecretValue(n)
\* returns exactly v, in every later state until the next setSecret(n, .) or
\* removeSecret(n) (no other operation changes the answer); a later
\* setSecret(n, v2) makes it v2; and getSecretMeta(n).length is the length of
\* the current value.
C13_GetReturnsLastSet ==
    /\ C13_OthersLeaveAnswer
    /\ out.cmd = "setSecret" /\ out.result.kind = "value" =>
        /\ getSecretValue(Disk, out.args.key) = Returns(out.args.value)
        /\ getSecretMeta(Disk, out.args.key).kind = "value"
        /\ getSecretMeta(Disk, out.args.key).value.length = Len(out.args.value)

\* C13 as amended: the same for every name n of the name grammar and every
\* well-formed string v (no lone surrogate).
C13_GetReturnsLastSetOfText ==
    /\ C13_OthersLeaveAnswer
    /\ /\ out.cmd = "setSecret" /\ out.result.kind = "value"
       /\ ValidName(out.args.key) /\ WellFormed(out.args.value)
       => /\ getSecretValue(Disk, out.args.key) = Returns(out.args.value)
          /\ getSecretMeta(Disk, out.args.key).kind = "value"
          /\ getSecretMeta(Disk, out.args.key).value.length = Len(out.args.value)

\* a name of the grammar that answered another value was set again, and
\* answers the new value
C13_Witness ==
    /\ out.cmd = "setSecret" /\ out.result.kind = "value"
    /\ ValidName(out.args.key) /\ WellFormed(out.args.value)
    /\ getSecretValue(DiskBefore, out.args.key).kind = "value"
    /\ getSecretValue(DiskBefore, out.args.key).value # out.args.value
    /\ getSecretValue(Disk, out.args.key) = Returns(out.args.value)

\* C14: for every name of the name grammar that was never set, or was
\* removed since it was last set (the vault holds no entry of that name),
\* hasSecret returns false, removeSecret returns false, and getSecretValue
\* and getSecretMeta return null without raising an error.  (Read in a
\* vault that has its key and its data file.)
C14_AbsentNameIsNoError ==
    /\ out.cmd \in {"hasSecret", "removeSecret", "getSecretValue", "getSecretMeta"}
    /\ ValidName(out.args.key)
    /\ vaultExists(DiskBefore) /\ out.before.key # NoFile
    /\ ~HasOwn(out.before.json.secrets, out.args.key)
    => IF out.cmd \in {"hasSecret", "removeSecret"}
       THEN out.result = Returns(FALSE)
       ELSE out.result = [kind |-> "null"]

\* C15: when one of the three stored segments (nonce, tag, ciphertext) of
\* an entry was altered after set, the next getSecretValue for that entry
\* fails with an integrity error and returns no plaintext.
C15_AlteredSegmentFailsGet ==
    /\ out.cmd = "getSecretValue"
    /\ out.before.key # NoFile
    /\ HasOwn(out.before.json.secrets, out.args.key)
    /\ Altered(ObjGet(out.before.json.secrets, out.args.key).entry.value)
    => out.result = Throws(MsgAuthError)

\* C16: when vault.key is absent while vault.json exists, every store
\* operation (setSecret, getSecretValue, getSecretMeta, hasSecret,
\* listSecrets, removeSecret, getAllSecretValues) aborts with exit code 1
\* and leaves vault.json unchanged.
C16_MissingKeyIsFatal ==
    /\ out.cmd \in StoreOps \ {"initVault"}
    /\ vaultExists(DiskBefore) /\ out.before.key = NoFile
    => /\ out.result = Exits(MsgNoKey)
       /\ vaultJson = out.before.json

-----------------------------------------------------------------------------
(* Properties of restore, restoreUnvaulted and a second redact.            *)

RECURSIVE Cat(_, _, _)
\* the concatenation of pieces[lo], ..., pieces[hi]
Cat(pieces, lo, hi) ==
    IF lo > hi THEN <<>>
    ELSE IF lo = hi THEN pieces[lo]
    ELSE Cat(pieces, lo, (lo + hi) \div 2) \o Cat(pieces, (lo + hi) \div 2 + 1, hi)

\* where the NamedReferences of s start
NamedReferences(s) == {p \in 1..Len(s) : PlaceholderEndAt(s, p) # 0}

\* the name of the NamedReference of s that starts at p
NameAt(s, p) == Slice(s, p + Len(PlaceholderOpen), PlaceholderEndAt(s, p) - 1)

\* s with every token that starts at a position p of starts and ends at
\* endAt[p] replaced by valueAt[p], and every other character kept
Substituted(s, starts, endAt, valueAt) ==
    Cat([i \in 1..Len(s) |->
            IF i \in starts THEN valueAt[i]
            ELSE IF \E p \in starts : p < i /\ i <= endAt[p] THEN <<>>
            ELSE <<s[i]>>],
        1, Len(s))

\* C17: restore(content, lookup) replaces every NamedReference whose name
\* the lookup resolves by the value looked up and keeps every other
\* character of the content (unresolved NamedReferences, fingerprint
\* references, tokens with uppercase or underscore names); restored holds
\* exactly the names that resolved, missing exactly those that did not.
C17_RestoreReplacesResolvedNamesOnly ==
    pc = "restored" =>
        LET s        == res.redacted
            resolved == {p \in NamedReferences(s) :
                            LookupIn(secretValues, NameAt(s, p)).kind = "value"}
        IN  /\ res.restored.error = NoError
            /\ res.restored.content =
                   Substituted(s, resolved,
                       [p \in resolved |-> PlaceholderEndAt(s, p)],
                       [p \in resolved |-> LookupIn(secretValues, NameAt(s, p)).value])
            /\ Range(res.restored.restored) = {NameAt(s, p) : p \in resolved}
            /\ Range(res.restored.missing) =
                   {NameAt(s, p) : p \in NamedReferences(s) \ resolved}

\* restore was given a content with a name that resolves, a name that does
\* not, a fingerprint reference, and tokens with an uppercase and with an
\* underscore name; it replaced the first and kept the others
C17_Witness ==
    /\ pc = "restored"
    /\ res.restored.restored = <<<<"k","1">>>>
    /\ res.restored.missing = <<<<"z","z">>>>
    /\ ~Includes(res.restored.content, Placeholder(<<"k","1">>))
    /\ Includes(res.restored.content, secretValues[1][1])
    /\ Includes(res.restored.content, Placeholder(<<"z","z">>))
    /\ Includes(res.restored.content, UnvaultedPlaceholder(<<"0","a","1","b","2","c","3","d">>))
    /\ Includes(res.restored.content, Placeholder(<<"K","1">>))
    /\ Includes(res.restored.content, Placeholder(<<"m","y","_","k","e","y">>))
    /\ res.restored.content # res.redacted

\* where the FingerprintReferences of s start
FingerprintReferences(s) == {p \in 1..Len(s) : UnvaultedEndAt(s, p) # 0}

\* the fingerprint of the FingerprintReference of s that starts at p
FingerprintAt(s, p) == Slice(s, UnvaultedEndAt(s, p) - 8, UnvaultedEndAt(s, p) - 1)

\* the secret-like values of a file: the candidate values of its lines,
\* without their quotes, that are long enough and that Phase 2 would flag
SecretLikeValues(existing) ==
    LET lines == SplitLines(existing)
    IN  {v \in UNION {{StripQuotes(c) : c \in Range(extractValueCandidates(lines[i]))} :
                          i \in 1..Len(lines)} :
            Len(v) >= HIGH_ENTROPY_MIN_LENGTH /\ SecretLike(v)}

\* C18: restoreUnvaulted(content, existing) replaces each
\* FingerprintReference of content by the secret-like value of existing with
\* that fingerprint when there is one, and otherwise keeps the token and
\* records its fingerprint in unmatched; restoredCount is the number of
\* substitutions; every other character, NamedReferences included, is kept.
C18_RestoreUnvaultedReplacesMatchedFingerprints ==
    pc = "unvaulted" =>
        LET s       == res.redacted
            values  == SecretLikeValues(res.existing)
            matched == {p \in FingerprintReferences(s) :
                           \E v \in values : sha256Prefix(v) = FingerprintAt(s, p)}
        IN  /\ \E valueAt \in [matched -> values] :
                   /\ \A p \in matched : sha256Prefix(valueAt[p]) = FingerprintAt(s, p)
                   /\ res.unvaulted.content =
                          Substituted(s, matched,
                              [p \in matched |-> UnvaultedEndAt(s, p)], valueAt)
            /\ res.unvaulted.restoredCount = Cardinality(matched)
            /\ Range(res.unvaulted.unmatched) =
                   {FingerprintAt(s, p) : p \in FingerprintReferences(s) \ matched}

\* restoreUnvaulted was given a content with a fingerprint that a value of
\* the existing file has, one that no value has, and a NamedReference; it
\* put the value back and kept the two other tokens
C18_Witness ==
    /\ pc = "unvaulted"
    /\ res.unvaulted.restoredCount = 1
    /\ res.unvaulted.unmatched = <<<<"0","a","1","b","2","c","3","d">>>>
    /\ Includes(res.redacted, UnvaultedPlaceholder(sha256Prefix(UnvaultedValue)))
    /\ ~Includes(res.unvaulted.content, UnvaultedPlaceholder(sha256Prefix(UnvaultedValue)))
    /\ Includes(res.unvaulted.content, UnvaultedValue)
    /\ Includes(res.unvaulted.content, UnvaultedPlaceholder(<<"0","a","1","b","2","c","3","d">>))
    /\ Includes(res.unvaulted.content, Placeholder(<<"z","z">>))

\* C19: for a content c that holds no placeholder of its own and a Map M
\* none of whose values occurs in c, restoreUnvaulted(redact(c, M), c) has
\* an empty unmatched list and its content is c, quotes and trailing commas
\* around the redacted values included.
C19_UnvaultedRoundTrip ==
    /\ pc = "unvaulted"
    /\ res.existing = content
    /\ ~Includes(content, PlaceholderOpen)
    /\ \A i \in 1..Len(secretValues) : ~Includes(content, secretValues[i][1])
    => /\ res.unvaulted.unmatched = <<>>
       /\ res.unvaulted.content = content

\* C20: redact(redact(c, M), M) = redact(c, M) for every content c and
\* every Map M of known values.
C20_RedactIdempotent ==
    pc = "again" => res.again = res.redacted

-----------------------------------------------------------------------------
(* Properties of Phase 1 of redact.                                        *)

RECURSIVE CountFrom(_, _, _)
\* s.split(v).length - 1 from position i on: the occurrences of v in s,
\* counted left to right without overlap
CountFrom(s, v, i) ==
    LET j == IndexOf(s, v, i)
    IN  IF j = 0 THEN 0 ELSE 1 + CountFrom(s, v, j + Len(v))

\* the entries (i, j) of the Map whose value i is at least MIN_REDACT_LENGTH
\* long and a proper substring of value j
Nested(m) ==
    {pair \in (1..Len(m)) \X (1..Len(m)) :
        /\ Len(m[pair[1]][1]) >= MIN_REDACT_LENGTH
        /\ Len(m[pair[1]][1]) < Len(m[pair[2]][1])
        /\ Includes(m[pair[2]][1], m[pair[1]][1])}

\* C21: when a known value A of at least 8 characters is a substring of a
\* longer known value B, the redacted content holds a NamedReference to B
\* for every occurrence of B in the content, and nowhere a NamedReference
\* to A between the characters of B that surround A.
C21_LongestMatchReplacedWhole ==
    pc # "start" =>
        \A pair \in Nested(secretValues) :
            LET A  == secretValues[pair[1]][1]
                B  == secretValues[pair[2]][1]
                nA == secretValues[pair[1]][2]
                nB == secretValues[pair[2]][2]
            IN  /\ CountFrom(res.redacted, Placeholder(nB), 1) >= CountFrom(content, B, 1)
                /\ \A k \in 1..(Len(B) - Len(A) + 1) :
                       StartsWithAt(B, A, k) =>
                           ~Includes(res.redacted,
                                     Slice(B, 1, k - 1) \o Placeholder(nA)
                                         \o Slice(B, k + Len(A), Len(B)))

-----------------------------------------------------------------------------
(* Phase 2 of redact on its own: redact applied to one line that carries   *)
(* one value, in each of the formats extractValueCandidates knows.         *)

\* the values the line may carry
Phase2Values == {
    \* a URL
    <<"h","t","t","p","s",":","/","/","a","p","i",".","e","x","a","m","p","l","e","-","s","e","r","v","i","c","e",".","c","o","m","/","v","1","/","c","h","a","t">>,
    \* a URL with a run of 32 letters, digits and slashes
    <<"h","t","t","p",":","/","/","l","o","c","a","l","h","o","s","t","/","a","p","i","/","v","1","/","i","n","t","e","r","n","a","l","/","s","e","r","v","i","c","e","/","e","n","d","p","o","i","n","t">>,
    \* an absolute path
    <<"/","v","a","r","/","l","i","b","/","m","y","a","p","p","/","d","a","t","a","/","s","t","o","r","a","g","e">>,
    \* an absolute path of 35 letters and slashes
    <<"/","u","s","r","/","l","o","c","a","l","/","s","h","a","r","e","/","m","y","a","p","p","/","d","a","t","a","/","s","t","o","r","a","g","e">>,
    \* a relative path
    <<".","/","c","o","n","f","i","g","s","/","p","r","o","d","u","c","t","i","o","n","/","a","p","p",".","t","o","m","l">>,
    \* a home-relative path
    <<"~","/","P","r","o","j","e","c","t","s","/","m","y","a","p","p","/","c","o","n","f","i","g",".","j","s","o","n">>,
    \* 10 characters
    <<"a","b","c","d","e","1","2","3","4","5">>,
    \* 14 characters
    <<"a","B","3","d","E","5","g","H","7","j","K","9","m","N">>,
    \* 15 characters
    <<"a","B","3","d","E","5","g","H","7","j","K","9","m","N","1">>,
    \* 15 characters, a Slack token
    <<"x","o","x","b","-","1","2","3","4","5","6","7","8","9","0">>,
    \* 16 characters
    <<"a","B","3","d","E","5","g","H","7","j","K","9","m","N","1","p">>,
    \* 22 characters
    <<"a","B","3","d","E","5","g","H","7","j","K","9","m","N","1","p","R","3","t","U","5","w">>}

\* the line that carries the value v in the format f
Phase2Line(f, v) ==
    CASE f = "env"    -> <<"K","E","Y","=">> \o v
      [] f = "quoted" -> <<"K","E","Y","=","\"">> \o v \o <<"\"">>
      [] f = "yaml"   -> <<"k","e","y",":"," ">> \o v
      [] f = "json"   -> <<"\"","k","e","y","\"",":"," ","\"">> \o v \o <<"\"",",">>

Phase2Formats == {"env", "quoted", "yaml", "json"}

\* the Maps of known values: none, the value of the line, another value
Phase2Maps(v) == {<<>>, <<<<v, EngineNames[1]>>>>, <<<<LongValue, EngineNames[1]>>>>}

InitPhase2 ==
    /\ vaultKey = NoFile
    /\ vaultJson = NoVaultJson
    /\ file = NoFile
    /\ out = NoCommand
    /\ \E f \in Phase2Formats, v \in Phase2Values :
          /\ content = Phase2Line(f, v)
          /\ secretValues \in Phase2Maps(v)
    /\ res = [redacted |-> <<>>, restored |-> <<>>, existing |-> <<>>,
              unvaulted |-> <<>>, again |-> <<>>]
    /\ pc = "start"

SpecPhase2 == InitPhase2 /\ [][Redact]_vars

\* the candidate values of the lines of text, without their quotes, line by
\* line: <<line number, value>>
CandidateValues(text) ==
    LET lines == SplitLines(text)
    IN  UNION {{<<i, StripQuotes(c)>> : c \in Range(extractValueCandidates(lines[i]))} :
                  i \in 1..Len(lines)}

\* line i of what redact returned holds the FingerprintReference of v
Fingerprinted(i, v) ==
    Includes(SplitLines(res.redacted)[i], UnvaultedPlaceholder(sha256Prefix(v)))

\* v is an http(s) URL or a filesystem path: it starts with http://,
\* https://, /, ./ or ~/
UrlOrPath(v) ==
    \E prefix \in {<<"h","t","t","p",":","/","/">>, <<"h","t","t","p","s",":","/","/">>,
                   <<"/">>, <<".","/">>, <<"~","/">>} :
        StartsWithAt(v, prefix, 1)

\* C22: redact never replaces by a FingerprintReference a candidate value
\* that is an http(s) URL or a filesystem path.
C22_UrlOrPathNeverFingerprinted ==
    pc = "redacted" =>
        \A cv \in CandidateValues(RedactKnown(content, secretValues)) :
            UrlOrPath(cv[2]) => ~Fingerprinted(cv[1], cv[2])

\* C23: redact never replaces by a FingerprintReference a candidate value
\* that is shorter than 16 characters and matches no known secret pattern.
C23_ShortValueNeverFingerprinted ==
    pc = "redacted" =>
        \A cv \in CandidateValues(RedactKnown(content, secretValues)) :
            Len(cv[2]) < 16 /\ ~matchesSecretPattern(cv[2])
                => ~Fingerprinted(cv[1], cv[2])

-----------------------------------------------------------------------------
(* Frame and removal properties of the store.                              *)

\* the entry stored under the name m in secrets, or that there is none
OwnEntry(secrets, m) ==
    IF HasOwn(secrets, m) THEN ObjGet(secrets, m) ELSE [kind |-> "undefined"]

\* the names that have an entry in secrets
OwnNames(secrets) == {secrets[i][1] : i \in 1..Len(secrets)}

\* the store functions that only read
StoreReaders ==
    {"getSecretValue", "getSecretMeta", "hasSecret", "listSecrets", "getAllSecretValues"}

SafeCommandsLeaveVault ==
    out.cmd \in {"read", "write", "has", "list"} => VaultUnchanged

Gone(d, n) == hasSecret(d, n) = FALSE /\ getSecretValue(d, n) = [kind |-> "null"]

\* C25: removeSecret(n), for a name n of the name grammar, returns true
\* exactly when an entry n existed immediately before the call; after it
\* hasSecret(n) is false and getSecretValue(n) is null, and they stay so
\* over every call that is not a setSecret.
C25_RemoveReportsAndRemoves ==
    /\ /\ out.cmd = "removeSecret" /\ ValidName(out.args.key)
       /\ vaultExists(DiskBefore) /\ out.before.key # NoFile
       => /\ out.result = Returns(HasOwn(out.before.json.secrets, out.args.key))
          /\ Gone(Disk, out.args.key)
    /\ out.cmd \in StoreOps \ {"setSecret", "initVault"} =>
           \A n \in StoreNames :
               ValidName(n) /\ Gone(DiskBefore, n) => Gone(Disk, n)

-----------------------------------------------------------------------------
(* Order of the Map handed to redact.                                      *)

\* the entries of the Map m inserted in the opposite order
Reversed(m) == [i \in 1..Len(m) |-> m[Len(m) + 1 - i]]

\* C28: redact(content, M) is the same whatever the order in which the
\* (value, name) pairs of M were inserted, also when two values of equal
\* length overlap in the content.
C28_RedactIgnoresInsertionOrder ==
    pc # "start" => redact(content, Reversed(secretValues)) = res.redacted

-----------------------------------------------------------------------------
(* Nonces of the stored entries.                                           *)

\* the pairs of distinct entries of vault.json, by position
EntryPairs ==
    {pair \in (1..Len(vaultJson.secrets)) \X (1..Len(vaultJson.secrets)) : pair[1] < pair[2]}

\* the stored value string of the entry at position i
StoredValue(i) == vaultJson.secrets[i][2].value

\* the entries at the positions of pair were encrypted by setSecret under
\* the key in vault.key, were not altered since, and hold the same plaintext
SamePlaintext(pair) ==
    /\ vaultKey # NoFile
    /\ ~Altered(StoredValue(pair[1])) /\ ~Altered(StoredValue(pair[2]))
    /\ StoredValue(pair[1]).ct.of.key = vaultKey
    /\ StoredValue(pair[2]).ct.of.key = vaultKey
    /\ StoredValue(pair[1]).ct.of.plaintext = StoredValue(pair[2]).ct.of.plaintext

-----------------------------------------------------------------------------
(* Two processes of the command line tool on the same vault directory.     *)
(* Each runs the store part of one command; a step is one access to the    *)
(* files (an existsSync, a readFileSync, a writeFileSync) with the         *)
(* computation that follows it in the process.  pc[p] is where process p   *)
(* stands and res[p] what it holds in memory; out.last is the process that *)
(* wrote vault.json last.                                                  *)

Procs == {1, 2}

\* the value the vault holds under k1 when it exists at the start, and the
\* value the set commands store
RaceOldValue == ShortValue

RaceNewValue == LongValue

\* the contents handed to write: one NamedReference twice; two references
RaceContents == {
    Placeholder(<<"k","1">>) \o <<" ">> \o Placeholder(<<"k","1">>),
    Placeholder(<<"k","1">>) \o <<" ">> \o Placeholder(<<"k","2">>)}

\* the commands a process may run: set of a name, rm of k1, write of a content
RacePrograms ==
    {[prog |-> "set", key |-> n, text |-> <<>>] : n \in {<<"k","1">>, <<"k","2">>}}
    \cup {[prog |-> "rm", key |-> <<"k","1">>, text |-> <<>>]}
    \cup {[prog |-> "write", key |-> <<>>, text |-> c] : c \in RaceContents}

\* where each command starts
RaceStart(prog) ==
    CASE prog = "set"   -> "vaultExists"
      [] prog = "rm"    -> "removeLoad"
      [] prog = "write" -> "requireVault"

\* the memory of a process that starts the command cmd
RaceMemory(cmd) ==
    [prog |-> cmd.prog, key |-> cmd.key, text |-> cmd.text,
     masterKey |-> Null, data |-> <<>>, inited |-> FALSE, i |-> 1,
     acc |-> [content |-> <<>>, restored |-> <<>>, missing |-> <<>>, lookups |-> <<>>]]

\* the vault directories at the start: none, or a vault holding k1
RaceDisks ==
    {[key |-> NoFile, json |-> NoVaultJson],
     [key |-> <<"m","0">>,
      json |-> VaultJson(<< <<<<"k","1">>,
                              [value     |-> encrypt(RaceOldValue, <<"m","0">>, 1),
                               desc      |-> Null,
                               createdAt |-> 1]>> >>)]}

InitRace ==
    /\ \E d \in RaceDisks : vaultKey = d.key /\ vaultJson = d.json
    /\ file = NoFile
    /\ out = [last |-> 0]
    /\ content = <<>>
    /\ secretValues = <<>>
    /\ \E c1 \in RacePrograms, c2 \in RacePrograms :
          /\ res = <<RaceMemory(c1), RaceMemory(c2)>>
          /\ pc = <<RaceStart(c1.prog), RaceStart(c2.prog)>>

\* process p goes to the step next with the memory mem; the files stay
Step(p, next, mem) ==
    /\ pc' = [pc EXCEPT ![p] = next]
    /\ res' = [res EXCEPT ![p] = mem]

\* the set command: if (!vaultExists())
SetVaultExists(p) ==
    /\ pc[p] = "vaultExists"
    /\ Step(p, IF vaultExists(Disk) THEN "loadMasterKey" ELSE "initVault", res[p])
    /\ UNCHANGED <<cliVars, content, secretValues>>

\* initVault: if (existsSync(vault.json)) return
InitVaultExists(p) ==
    /\ pc[p] = "initVault"
    /\ Step(p, IF vaultExists(Disk) THEN "loadMasterKey" ELSE "writeKey", res[p])
    /\ UNCHANGED <<cliVars, content, secretValues>>

\* initVault: writeFileSync(keyPath, randomBytes(32).toString("hex"))
InitVaultWriteKey(p) ==
    /\ pc[p] = "writeKey"
    /\ \E masterKey \in StoreKeys : vaultKey' = masterKey
    /\ Step(p, "writeJson", [res[p] EXCEPT !.inited = TRUE])
    /\ UNCHANGED <<vaultJson, file, out, content, secretValues>>

\* initVault: writeFileSync(vaultPath, JSON.stringify({ secrets: {} }))
InitVaultWriteJson(p) ==
    /\ pc[p] = "writeJson"
    /\ vaultJson' = VaultJson(<<>>)
    /\ out' = [last |-> p]
    /\ Step(p, "loadMasterKey", res[p])
    /\ UNCHANGED <<vaultKey, file, content, secretValues>>

\* setSecret: const masterKey = loadMasterKey()
LoadMasterKey(p) ==
    /\ pc[p] = "loadMasterKey"
    /\ IF loadMasterKey(Disk).kind = "value"
       THEN Step(p, "loadVaultData", [res[p] EXCEPT !.masterKey = loadMasterKey(Disk).value])
       ELSE Step(p, "failed", res[p])
    /\ UNCHANGED <<cliVars, content, secretValues>>

\* setSecret: const data = loadVaultData()
LoadVaultData(p) ==
    /\ pc[p] = "loadVaultData"
    /\ Step(p, "saveVaultData", [res[p] EXCEPT !.data = loadVaultData(Disk)])
    /\ UNCHANGED <<cliVars, content, secretValues>>

\* a setSecret that assigns to the data on disk at the time of the write
Saved_Merging(mem, d, iv, now) ==
    VaultJson(ObjSet(loadVaultData(d), mem.key,
                     [value     |-> encrypt(RaceNewValue, mem.masterKey, iv),
                      desc      |-> Null,
                      createdAt |-> now]))

\* what setSecret writes: the data it read with data.secrets[key] assigned
Saved(mem, d, iv, now) ==
    VaultJson(ObjSet(mem.data, mem.key,
                     [value     |-> encrypt(RaceNewValue, mem.masterKey, iv),
                      desc      |-> Null,
                      createdAt |-> now]))

\* setSecret: data.secrets[key] = {...}; saveVaultData(data)
SaveVaultData(p) ==
    /\ pc[p] = "saveVaultData"
    /\ \E iv \in Nonces, now \in Times : vaultJson' = Saved(res[p], Disk, iv, now)
    /\ out' = [last |-> p]
    /\ Step(p, "done", res[p])
    /\ UNCHANGED <<vaultKey, file, content, secretValues>>

\* removeSecret: const data = loadVaultData(); if (!(key in data.secrets)) return false
RemoveLoad(p) ==
    /\ pc[p] = "removeLoad"
    /\ Step(p, IF In(loadVaultData(Disk), res[p].key) THEN "removeSave" ELSE "done",
            [res[p] EXCEPT !.data = loadVaultData(Disk)])
    /\ UNCHANGED <<cliVars, content, secretValues>>

\* removeSecret: delete data.secrets[key]; saveVaultData(data)
RemoveSave(p) ==
    /\ pc[p] = "removeSave"
    /\ vaultJson' = VaultJson(ObjDelete(res[p].data, res[p].key))
    /\ out' = [last |-> p]
    /\ Step(p, "done", res[p])
    /\ UNCHANGED <<vaultKey, file, content, secretValues>>

\* the write command: requireVault()
RequireVault(p) ==
    /\ pc[p] = "requireVault"
    /\ Step(p, IF vaultExists(Disk) THEN "lookup" ELSE "failed", res[p])
    /\ UNCHANGED <<cliVars, content, secretValues>>

\* restore: the callback of content.replace for the next match of
\* PLACEHOLDER_RE, which calls getSecretValue(key); after the last match,
\* the test of result.missing
RestoreLookup(p) ==
    /\ pc[p] = "lookup"
    /\ LET s     == res[p].text
           at    == NextPlaceholder(s, res[p].i)
           e     == PlaceholderEndAt(s, at)
           key   == Slice(s, at + Len(PlaceholderOpen), e - 1)
           value == getSecretValue(Disk, key)
           acc   == res[p].acc
       IN  IF at = 0
           THEN Step(p, IF acc.missing # <<>> THEN "failed" ELSE "writeFile",
                     [res[p] EXCEPT !.acc.content = @ \o Slice(s, res[p].i, Len(s))])
           ELSE IF value.kind \notin {"value", "null"} THEN Step(p, "failed", res[p])
           ELSE IF value.kind = "null"
           THEN Step(p, "lookup",
                     [res[p] EXCEPT !.i = e + 1,
                                    !.acc.content = @ \o Slice(s, res[p].i, e),
                                    !.acc.missing = Append(@, key),
                                    !.acc.lookups = Append(@, <<key, Null>>)])
           ELSE Step(p, "lookup",
                     [res[p] EXCEPT !.i = e + 1,
                                    !.acc.content = @ \o Slice(s, res[p].i, at - 1) \o value.value,
                                    !.acc.restored = Append(@, key),
                                    !.acc.lookups = Append(@, <<key, value.value>>)])
    /\ UNCHANGED <<cliVars, content, secretValues>>

\* the write command: writeFileSync(filePath, result.content)
WriteFile(p) ==
    /\ pc[p] = "writeFile"
    /\ file' = res[p].acc.content
    /\ Step(p, "done", res[p])
    /\ UNCHANGED <<vaultKey, vaultJson, out, content, secretValues>>

NextRace ==
    \E p \in Procs :
        \/ SetVaultExists(p) \/ InitVaultExists(p) \/ InitVaultWriteKey(p)
        \/ InitVaultWriteJson(p) \/ LoadMasterKey(p) \/ LoadVaultData(p)
        \/ SaveVaultData(p) \/ RemoveLoad(p) \/ RemoveSave(p)
        \/ RequireVault(p) \/ RestoreLookup(p) \/ WriteFile(p)

SpecRace == InitRace /\ [][NextRace]_vars

-----------------------------------------------------------------------------
(* Properties of two processes on the same vault.                          *)

\* both processes ran setSecret, on distinct names, against a vault that
\* existed when they started, and both have returned
TwoSetsDone ==
    /\ res[1].prog = "set" /\ res[2].prog = "set"
    /\ res[1].key # res[2].key
    /\ ~res[1].inited /\ ~res[2].inited
    /\ pc = <<"done", "done">>

\* C26: store mutations of concurrent processes are not isolated, the last
\* writer wins: when two processes have run setSecret on distinct names
\* against the same vault, vault.json is what the process that wrote last
\* made of the data it had read, so that the entry of the other process is
\* there only if the last writer read vault.json after the other had
\* written it; there is an interleaving after which it is not there.
C26_LastWriterWins ==
    TwoSetsDone =>
        /\ \E iv \in Nonces, now \in Times :
               vaultJson = Saved(res[out.last], Disk, iv, now)
        /\ HasOwn(vaultJson.secrets, res[3 - out.last].key)
               <=> HasOwn(res[out.last].data, res[3 - out.last].key)

\* both setSecret calls completed and vault.json lacks the entry of the
\* process that wrote first
C26_Witness ==
    /\ TwoSetsDone
    /\ HasOwn(vaultJson.secrets, res[out.last].key)
    /\ ~HasOwn(vaultJson.secrets, res[3 - out.last].key)
    /\ vaultKey # NoFile

\* C29: in a write that runs while another process sets or removes
\* secrets, every occurrence of the same NamedReference is replaced by the
\* same value, and no name is both restored and missing.
C29_WriteSeesOneVault ==
    \A p \in Procs :
        res[p].prog = "write" =>
            /\ pc[p] = "done" =>
                   \A i, j \in 1..Len(res[p].acc.lookups) :
                       res[p].acc.lookups[i][1] = res[p].acc.lookups[j][1]
                           => res[p].acc.lookups[i][2] = res[p].acc.lookups[j][2]
            /\ Range(res[p].acc.restored) \cap Range(res[p].acc.missing) = {}

\* C30: when two processes each run the set command against a directory
\* with no vault yet, every entry of vault.json, in every state, was
\* encrypted under the key that vault.key holds: getSecretValue on it
\* succeeds.
C30_EntriesUnderCurrentKey ==
    /\ res[1].prog = "set" /\ res[2].prog = "set"
    /\ (res[1].inited \/ res[2].inited)
    => \A i \in 1..Len(vaultJson.secrets) :
           getSecretValue(Disk, vaultJson.secrets[i][1]).kind = "value"

====
